---- MODULE Spec2Model ----
(***************************************************************************)
(* Safety-check instrumentation pass (goto_check) and the Java trace       *)
(* validator (check_trace_assumptions), modelled from                      *)
(*   src/src/analyses/goto_check.cpp                                       *)
(*   src/jbmc/src/java_bytecode/java_trace_validation.cpp                  *)
(***************************************************************************)
EXTENDS Integers, Sequences, FiniteSets, TLC

VARIABLES
  \* ---- trace validator (check_trace_assumptions) ----
  tlen,      \* number of steps of the trace under validation
  tpos,      \* number of steps already checked
  tstep,     \* the step checked last
  tstatus,   \* "running" | "checked" | "returned" | "raised"
  terr,      \* side named by the raised error ("" when none)
  twhere,    \* the function that raised: "lhs" | "rhs" | "" (none)
  \* ---- instrumentation pass (goto_checkt::goto_check) ----
  cfg,            \* the goto_checkt object: options, enable flags, mode,
                  \* pointer flags, dirty locals, allocations
  prog,           \* the body of the function: list of nodes [nid, ins]
  it,             \* position of the loop iterator in prog
  assertions,     \* the assertion cache
  did_something,  \* the flag of the same name
  pc,             \* "idle" | "loop" | "done" | "aborted"
  nextNid,        \* next unused node identity
  run,            \* number of the run of the pass on this body
  body1,          \* history: the body as the first run left it
  last,           \* history: the instruction processed last and the cache
                  \* before it was processed
  \* ---- whole-program entry point (goto_check on goto_functions) ----
  funcs,     \* the functions: list of [orig, body], orig the body on entry
  fidx,      \* the function the scan or the instrumentation loop is at
  scan,      \* the instruction of funcs[fidx] the scan is at
  wpc        \* "idle" | "collect" | "functions" | "in_function" | "done"
             \* | "aborted"

tvars == <<tlen, tpos, tstep, tstatus, terr, twhere>>

gvars == <<cfg, prog, it, assertions, did_something, pc, nextNid, run,
           body1, last>>

wvars == <<funcs, fidx, scan, wpc>>

vars == <<tlen, tpos, tstep, tstatus, terr, twhere,
          cfg, prog, it, assertions, did_something, pc, nextNid, run,
          body1, last, funcs, fidx, scan, wpc>>

(***************************************************************************)
(* Bounds of the model.                                                    *)
(***************************************************************************)
\* nesting depth of the expressions offered to the trace validator
MaxDepth == 2
\* longest trace offered to the trace validator
MaxTraceLen == 2

(***************************************************************************)
(* Expression algebra (exprt): a node has a kind tag, a type, the named    *)
(* attributes identifier and value, and an ordered sequence of operands.   *)
(***************************************************************************)
NoType == [id |-> "", w |-> 0]

Mk(id, type, identifier, value, num, ops) ==
  [id |-> id, type |-> type, identifier |-> identifier, value |-> value,
   num |-> num, ops |-> ops]

\* exprt(): the plain expression with empty id
plain_expr == Mk("", NoType, "", "", 0, <<>>)

has_operands(e) == e.ops # <<>>

\* skip_typecast: remove the outer typecasts of an expression
RECURSIVE skip_typecast(_)
skip_typecast(e) ==
  IF e.id = "typecast" /\ has_operands(e) THEN skip_typecast(e.ops[1]) ELSE e

(***************************************************************************)
(* simplify_expr, as far as the validator and the emitter consume it:      *)
(* operands first, then constant folding of the node.                      *)
(***************************************************************************)
IsConst(e) == e.id = "constant"
IsTrue(e) == e.id = "constant" /\ e.value = "true"
IsFalse(e) == e.id = "constant" /\ e.value = "false"

BoolT == [id |-> "bool", w |-> 1]
true_exprt == Mk("constant", BoolT, "", "true", 1, <<>>)
false_exprt == Mk("constant", BoolT, "", "false", 0, <<>>)
BoolConst(b) == IF b THEN true_exprt ELSE false_exprt

RelIds == {"ge", "gt", "le", "lt", "equal", "notequal"}

EvalRel(id, a, b) ==
  CASE id = "ge" -> a >= b
    [] id = "gt" -> a > b
    [] id = "le" -> a <= b
    [] id = "lt" -> a < b
    [] id = "equal" -> a = b
    [] id = "notequal" -> a # b

RECURSIVE SimplifySeq(_)
RECURSIVE simplify_expr(_)
SimplifySeq(s) ==
  IF s = <<>> THEN <<>> ELSE <<simplify_expr(Head(s))>> \o SimplifySeq(Tail(s))

\* the integer n is a value of the bit-vector type
BvFits(n, type) ==
  \/ type.id = "unsignedbv" /\ n >= 0 /\ (type.w >= 31 \/ n < 2^type.w)
  \/ type.id = "signedbv"
     /\ (type.w >= 32 \/ (n >= -(2^(type.w - 1)) /\ n < 2^(type.w - 1)))

WithoutNeutral(e, kept) ==
  IF Len(kept) = 1 THEN kept[1] ELSE [e EXCEPT !.ops = kept]

simplify_node(e) ==
  LET n == Len(e.ops) IN
  CASE e.id \in RelIds /\ n = 2 /\ IsConst(e.ops[1]) /\ IsConst(e.ops[2])
         /\ e.ops[1].value = "#" /\ e.ops[2].value = "#" ->
         BoolConst(EvalRel(e.id, e.ops[1].num, e.ops[2].num))
    [] e.id = "plus" /\ n = 2 /\ IsConst(e.ops[1]) /\ IsConst(e.ops[2])
         /\ e.ops[1].value # "" /\ e.ops[2].value # "" ->
         Mk("constant", e.ops[1].type, "", e.ops[1].value,
            e.ops[1].num + e.ops[2].num, <<>>)
    [] e.id = "typecast" /\ n = 1 /\ IsConst(e.ops[1]) /\ e.ops[1].value # ""
         /\ e.type = e.ops[1].type -> e.ops[1]
    \* an integer constant cast to an integer type that holds its value
    [] e.id = "typecast" /\ n = 1 /\ IsConst(e.ops[1]) /\ e.ops[1].value = "#"
         /\ e.type # e.ops[1].type /\ BvFits(e.ops[1].num, e.type) ->
         Mk("constant", e.type, "", "#", e.ops[1].num, <<>>)
    [] e.id = "not" /\ n = 1 /\ IsTrue(e.ops[1]) -> false_exprt
    [] e.id = "not" /\ n = 1 /\ IsFalse(e.ops[1]) -> true_exprt
    [] e.id = "implies" /\ n = 2 /\ IsTrue(e.ops[1]) -> e.ops[2]
    [] e.id = "implies" /\ n = 2 /\ (IsFalse(e.ops[1]) \/ IsTrue(e.ops[2])) ->
         true_exprt
    [] e.id = "or" /\ (\E i \in 1..n : IsTrue(e.ops[i])) -> true_exprt
    [] e.id = "and" /\ (\E i \in 1..n : IsFalse(e.ops[i])) -> false_exprt
    [] e.id = "and" /\ n >= 1 /\ (\A i \in 1..n : IsTrue(e.ops[i])) -> true_exprt
    [] e.id = "or" /\ n >= 1 /\ (\A i \in 1..n : IsFalse(e.ops[i])) -> false_exprt
    \* operands that are the neutral element are removed; a single operand
    \* that is left replaces the node
    [] e.id = "or" /\ (\E i \in 1..n : IsFalse(e.ops[i])) ->
         WithoutNeutral(e, SelectSeq(e.ops, LAMBDA x : ~IsFalse(x)))
    [] e.id = "and" /\ (\E i \in 1..n : IsTrue(e.ops[i])) ->
         WithoutNeutral(e, SelectSeq(e.ops, LAMBDA x : ~IsTrue(x)))
    [] OTHER -> e

simplify_expr(e) ==
  simplify_node([e EXCEPT !.ops = SimplifySeq(e.ops)])

(***************************************************************************)
(* Trace validator: java_trace_validation.cpp                              *)
(***************************************************************************)
\* variant: the identifier is not looked at
check_symbol_structure_any_identifier(symbol_expr) ==
  symbol_expr.id = "symbol"

check_symbol_structure(symbol_expr) ==
  symbol_expr.id = "symbol" /\ symbol_expr.identifier # ""

can_contain_symbol_operand(expr) ==
  \/ expr.id = "member"
  \/ expr.id = "index"
  \/ expr.id = "address_of"
  \/ expr.id = "typecast"
  \/ expr.id = "symbol"
  \/ expr.identifier = "byte_extract_little_endian"

\* optionalt<symbol_exprt>: <<>> for "no value", <<s>> for the symbol s
RECURSIVE get_inner_symbol_expr(_)
get_inner_symbol_expr(expr) ==
  IF has_operands(expr)
  THEN IF ~can_contain_symbol_operand(expr.ops[1])
       THEN <<>>
       ELSE get_inner_symbol_expr(expr.ops[1])
  ELSE IF ~check_symbol_structure(expr) THEN <<>> ELSE <<expr>>

check_member_structure(member_expr) ==
  IF member_expr.id # "member" THEN FALSE
  ELSE IF ~has_operands(member_expr) THEN FALSE
  ELSE get_inner_symbol_expr(member_expr) # <<>>

valid_lhs_expr_high_level(lhs) ==
  \/ lhs.id = "member"
  \/ lhs.id = "symbol"
  \/ lhs.id = "index"
  \/ lhs.id = "byte_extract_little_endian"

\* variant: array-list is missing from the kinds
valid_rhs_expr_high_level_no_array_list(rhs) ==
  \/ rhs.id = "struct"
  \/ rhs.id = "array"
  \/ rhs.id = "constant"
  \/ rhs.id = "address_of"
  \/ rhs.id = "symbol"
  \/ rhs.id = "byte_extract_little_endian"

valid_rhs_expr_high_level(rhs) ==
  \/ rhs.id = "struct"
  \/ rhs.id = "array"
  \/ rhs.id = "constant"
  \/ rhs.id = "address_of"
  \/ rhs.id = "symbol"
  \/ rhs.id = "array_list"
  \/ rhs.id = "byte_extract_little_endian"

\* the side named by the raised error, or "" when the function returns
check_lhs_assumptions(lhs) ==
  IF ~valid_lhs_expr_high_level(lhs) THEN "LHS"
  ELSE IF lhs.id = "member"
  THEN IF ~check_member_structure(lhs) THEN "LHS" ELSE ""
  ELSE IF lhs.id = "symbol"
  THEN IF ~check_symbol_structure(lhs) THEN "LHS" ELSE ""
  ELSE IF lhs.id = "index"
  THEN IF Len(lhs.ops) # 2 THEN "LHS"
       ELSE IF ~check_symbol_structure(lhs.ops[1]) THEN "LHS"
       ELSE IF lhs.ops[2].id # "constant" THEN "LHS"
       ELSE ""
  ELSE IF lhs.id = "byte_extract_little_endian"
  THEN IF ~check_symbol_structure(lhs.ops[1]) THEN "LHS"
       ELSE IF simplify_expr(lhs.ops[2]).id # "constant" THEN "LHS"
       ELSE ""
  ELSE "LHS"

\* variant: a constant that holds a value is accepted before its operands are
\* looked at
check_rhs_assumptions_value_first(rhs) ==
  IF ~valid_rhs_expr_high_level(rhs) THEN "RHS"
  ELSE IF rhs.id = "address_of"
  THEN IF get_inner_symbol_expr(rhs) = <<>> THEN "RHS" ELSE ""
  ELSE IF rhs.id = "symbol"
  THEN IF ~check_symbol_structure(rhs) THEN "RHS" ELSE ""
  ELSE IF rhs.id = "struct"
  THEN IF ~has_operands(rhs) THEN "RHS"
       ELSE IF rhs.ops[1].id # "struct" /\ rhs.ops[1].id # "constant" THEN "RHS"
       ELSE IF Len(rhs.ops) > 1
               /\ \E i \in 2..Len(rhs.ops) : rhs.ops[i].id # "constant"
       THEN "RHS"
       ELSE ""
  ELSE IF rhs.id = "array" THEN ""
  ELSE IF rhs.id = "array_list" THEN ""
  ELSE IF rhs.id = "constant"
  THEN IF rhs.value # "" THEN ""
       ELSE IF has_operands(rhs)
       THEN LET operand == skip_typecast(rhs.ops[1]) IN
            IF operand.id # "constant" /\ operand.id # "address_of"
               /\ operand.id # "plus"
            THEN "RHS" ELSE ""
       ELSE "RHS"
  ELSE IF rhs.id = "byte_extract_little_endian"
  THEN IF simplify_expr(rhs.ops[1]).id # "constant" THEN "LHS"
       ELSE IF simplify_expr(rhs.ops[2]).id # "constant" THEN "LHS"
       ELSE ""
  ELSE "RHS"

check_rhs_assumptions(rhs) ==
  IF ~valid_rhs_expr_high_level(rhs) THEN "RHS"
  ELSE IF rhs.id = "address_of"
  THEN IF get_inner_symbol_expr(rhs) = <<>> THEN "RHS" ELSE ""
  ELSE IF rhs.id = "symbol"
  THEN IF ~check_symbol_structure(rhs) THEN "RHS" ELSE ""
  ELSE IF rhs.id = "struct"
  THEN IF ~has_operands(rhs) THEN "RHS"
       ELSE IF rhs.ops[1].id # "struct" /\ rhs.ops[1].id # "constant" THEN "RHS"
       ELSE IF Len(rhs.ops) > 1
               /\ \E i \in 2..Len(rhs.ops) : rhs.ops[i].id # "constant"
       THEN "RHS"
       ELSE ""
  ELSE IF rhs.id = "array" THEN ""
  ELSE IF rhs.id = "array_list" THEN ""
  ELSE IF rhs.id = "constant"
  THEN IF has_operands(rhs)
       THEN LET operand == skip_typecast(rhs.ops[1]) IN
            IF operand.id # "constant" /\ operand.id # "address_of"
               /\ operand.id # "plus"
            THEN "RHS" ELSE ""
       ELSE IF rhs.value = "" THEN "RHS" ELSE ""
  ELSE IF rhs.id = "byte_extract_little_endian"
  THEN IF simplify_expr(rhs.ops[1]).id # "constant" THEN "LHS"
       ELSE IF simplify_expr(rhs.ops[2]).id # "constant" THEN "LHS"
       ELSE ""
  ELSE "RHS"

\* side: the side named by the error message; where: the function raising it
check_step_assumptions(step) ==
  IF step.type # "assignment" /\ step.type # "decl"
  THEN [side |-> "", where |-> ""]
  ELSE LET l == check_lhs_assumptions(skip_typecast(step.full_lhs)) IN
       IF l # "" THEN [side |-> l, where |-> "lhs"]
       ELSE LET r == check_rhs_assumptions(skip_typecast(step.full_lhs_value)) IN
            [side |-> r, where |-> IF r # "" THEN "rhs" ELSE ""]

(***************************************************************************)
(* Expressions offered to the validator: every shape of depth <= MaxDepth  *)
(* along operand 0, with a few second operands.                            *)
(***************************************************************************)
TSym(name) == Mk("symbol", NoType, name, "", 0, <<>>)
TConst(v) == Mk("constant", NoType, "", v, 0, <<>>)
TNode(id, ops) == Mk(id, NoType, "", "", 0, ops)

TLeaves == {TSym("x"), TSym(""), TConst("0"), TConst(""), plain_expr}

TSeconds == {TConst("0"), TSym("x"), TNode("plus", <<TConst("0"), TConst("0")>>)}

\* nodes whose operand 0 is taken from S: the shapes a nested-symbol search
\* walks through, and "plus" for a shape it does not
TChainOver(S) ==
  {TNode(k, <<e>>) : k \in {"member", "address_of", "typecast"}, e \in S}
  \cup {TNode(k, <<e, TConst("0")>>) :
          k \in {"index", "byte_extract_little_endian", "plus"}, e \in S}

\* the same shapes with other second operands
TSecondOver(S) ==
  {TNode("index", <<e, TSym("x")>>) : e \in S}
  \cup {TNode("byte_extract_little_endian", <<e, s>>) :
          e \in S, s \in TSeconds \ {TConst("0")}}

\* literal shapes (struct, array, array-list, constant with operands) over S
TLiteralOver(S) ==
  {TNode("struct", <<e>>) : e \in S}
  \cup {TNode("struct", <<e, s>>) : e \in S, s \in {TConst("0"), TSym("x")}}
  \cup {TNode("array", <<e>>) : e \in S}
  \cup {TNode("array_list", <<e>>) : e \in S}
  \cup {Mk("constant", NoType, "", v, 0, <<e>>) : v \in {"", "0"}, e \in S}

\* malformed or empty shapes
TOdd ==
  {TNode("member", <<>>), TNode("index", <<>>), TNode("index", <<TSym("x")>>),
   TNode("struct", <<>>), TNode("array", <<>>), TNode("array_list", <<>>),
   TNode("struct", <<TConst("0"), TConst("0"), TSym("x")>>),
   TNode("struct", <<TNode("struct", <<>>), TConst("0"), TConst("0")>>)}

RECURSIVE TChain(_)
TChain(d) == IF d = 0 THEN TLeaves ELSE TLeaves \cup TChainOver(TChain(d - 1))

TExprs ==
  TChain(MaxDepth) \cup TSecondOver(TChain(MaxDepth - 1))
  \cup TLiteralOver(TChain(MaxDepth - 1)) \cup TOdd

\* representative other sides, so that each side is explored on its own
TSmallLhs == {TSym("x"), TSym("")}
TSmallRhs == {TConst("0"), TNode("member", <<TSym("x")>>)}

TStep(type, lhs, rhs) == [type |-> type, full_lhs |-> lhs, full_lhs_value |-> rhs]

\* assignments over every shape; declarations, which the validator treats
\* as assignments, and other steps over the representatives
TSteps ==
  {TStep("assignment", l, r) : l \in TExprs, r \in TSmallRhs}
  \cup {TStep("assignment", l, r) : l \in TSmallLhs, r \in TExprs}
  \cup {TStep(t, l, r) : t \in {"decl", "location"},
                         l \in TSmallLhs \cup {TNode("plus", <<TSym("x"), TConst("0")>>)},
                         r \in TSmallRhs}

NoStep == TStep("", plain_expr, plain_expr)

(***************************************************************************)
(* check_trace_assumptions as a state machine: one action per loop         *)
(* iteration; the raised error leaves the loop.                            *)
(***************************************************************************)
InitTrace ==
  /\ tlen \in 0..MaxTraceLen
  /\ tpos = 0
  /\ tstep = NoStep
  /\ tstatus = "running"
  /\ terr = ""
  /\ twhere = ""
  \* the instrumentation pass is not running
  /\ cfg = [idle |-> TRUE]
  /\ prog = <<>>
  /\ it = 0
  /\ assertions = {}
  /\ did_something = FALSE
  /\ pc = "idle"
  /\ nextNid = 0
  /\ run = 0
  /\ body1 = <<>>
  /\ last = [oid |-> 0]
  \* the whole-program entry point is not running
  /\ funcs = <<>>
  /\ fidx = 0
  /\ scan = 0
  /\ wpc = "idle"

\* one iteration of the loop: check_step_assumptions on the next step
CheckTraceStep ==
  /\ tstatus = "running"
  /\ tpos < tlen
  /\ \E step \in TSteps :
       LET r == check_step_assumptions(step) IN
       /\ tstep' = step
       /\ terr' = r.side
       /\ twhere' = r.where
       /\ tstatus' = IF r.side = "" THEN "checked" ELSE "raised"
  /\ UNCHANGED <<tlen, tpos>>
  /\ UNCHANGED gvars
  /\ UNCHANGED wvars

\* the iteration ends without an error: the loop moves to the next step
NextTraceStep ==
  /\ tstatus = "checked"
  /\ tpos' = tpos + 1
  /\ tstep' = NoStep
  /\ tstatus' = "running"
  /\ UNCHANGED <<tlen, terr, twhere>>
  /\ UNCHANGED gvars
  /\ UNCHANGED wvars

\* the loop is over: check_trace_assumptions returns
CheckTraceReturn ==
  /\ tstatus = "running"
  /\ tpos = tlen
  /\ tstatus' = "returned"
  /\ UNCHANGED <<tlen, tpos, tstep, terr, twhere>>
  /\ UNCHANGED gvars
  /\ UNCHANGED wvars

NextTrace == CheckTraceStep \/ NextTraceStep \/ CheckTraceReturn

SpecTrace == InitTrace /\ [][NextTrace]_vars /\ WF_vars(NextTrace)

(***************************************************************************)
(* ======================  goto_check.cpp  =============================== *)
(* Types and expression constructors used by the instrumentation pass.     *)
(***************************************************************************)
SInt(w) == [id |-> "signedbv", w |-> w]
UInt(w) == [id |-> "unsignedbv", w |-> w]
FloatT == [id |-> "floatbv", w |-> 32]
\* pointer type; w is the width of the pointee type
PtrTo(w) == [id |-> "pointer", w |-> w]
PtrT == PtrTo(16)
CharPtrT == PtrTo(8)
StructT == [id |-> "struct", w |-> 0]
EmptyT == [id |-> "empty", w |-> 0]
\* array type; w is the size: > 0 a constant size, 0 zero, -1 nil, -2 infinity
ArrT(n) == [id |-> "array", w |-> n]
\* code type; w = 1 when the callee has a 'this' parameter
CodeT(has_this) == [id |-> "code", w |-> IF has_this THEN 1 ELSE 0]
SizeT == UInt(64)
OffsetT == SInt(64)

Sym(name, type) == Mk("symbol", type, name, "", 0, <<>>)
\* from_integer
Const(n, type) == Mk("constant", type, "", "#", n, <<>>)
Node(id, type, ops) == Mk(id, type, "", "", 0, ops)
Un(id, type, a) == Node(id, type, <<a>>)
Bin(id, type, a, b) == Node(id, type, <<a, b>>)
Pred(id, ops) == Node(id, BoolT, ops)
not_exprt(a) == Pred("not", <<a>>)
and_exprt(a, b) == Pred("and", <<a, b>>)
or_exprt(a, b) == Pred("or", <<a, b>>)
implies_exprt(a, b) == Pred("implies", <<a, b>>)
typecast_exprt(a, type) == Un("typecast", type, a)
conditional_cast(a, type) == IF a.type = type THEN a ELSE typecast_exprt(a, type)
null_pointer_exprt == Mk("constant", PtrT, "", "NULL", 0, <<>>)

\* disjunction / conjunction of a list of operands (std_expr)
disjunction(ops) ==
  IF ops = <<>> THEN false_exprt
  ELSE IF Len(ops) = 1 THEN ops[1] ELSE Pred("or", ops)
conjunction(ops) ==
  IF ops = <<>> THEN true_exprt
  ELSE IF Len(ops) = 1 THEN ops[1] ELSE Pred("and", ops)

\* boolean_negate (expr_util)
boolean_negate(e) ==
  IF e.id = "not" /\ Len(e.ops) = 1 THEN e.ops[1]
  ELSE IF IsTrue(e) THEN false_exprt
  ELSE IF IsFalse(e) THEN true_exprt
  ELSE not_exprt(e)

\* make_binary (expr_util): left-associative nesting of an n-ary node
RECURSIVE make_binary_upto(_, _)
make_binary_upto(e, n) ==
  IF n <= 2 THEN [e EXCEPT !.ops = SubSeq(e.ops, 1, n)]
  ELSE [e EXCEPT !.ops = <<make_binary_upto(e, n - 1), e.ops[n]>>]
make_binary(e) == make_binary_upto(e, Len(e.ops))

\* has_subexpr(e, id) and has_symbol(e, {name})
RECURSIVE has_subexpr(_, _)
has_subexpr(e, ids) ==
  e.id \in ids \/ \E i \in 1..Len(e.ops) : has_subexpr(e.ops[i], ids)
RECURSIVE has_symbol(_, _)
has_symbol(e, names) ==
  \/ e.id \in {"symbol", "next_symbol"} /\ e.identifier \in names
  \/ \E i \in 1..Len(e.ops) : has_symbol(e.ops[i], names)

(***************************************************************************)
(* guardt: a conjunction kept as the list of its conjuncts; <<>> is true.  *)
(***************************************************************************)
TrueGuard == <<>>
guard_is_true(g) == g = <<>>
guard_add(g, e) ==
  IF g = <<false_exprt>> \/ IsTrue(e) THEN g
  ELSE IF IsFalse(e) THEN <<e>>
  ELSE IF e.id = "and" THEN g \o e.ops
  ELSE Append(g, e)
guard_as_expr(g) ==
  IF g = <<>> THEN true_exprt
  ELSE IF Len(g) = 1 THEN g[1] ELSE Pred("and", g)

(***************************************************************************)
(* A submission to add_guarded_property: the asserted expression, its      *)
(* comment and property class, the guard, and the place of the checked     *)
(* sub-expression (root expression of the instruction and path of operand  *)
(* numbers below it).                                                      *)
(***************************************************************************)
Prop(asserted, comment, class, at, guard) ==
  <<[asserted |-> asserted, comment |-> comment, class |-> class,
     root |-> at.root, path |-> at.path, guard |-> guard]>>

At(root, path) == [root |-> root, path |-> path]
Down(at, i) == [root |-> at.root, path |-> Append(at.path, i)]

\* 2^n
RECURSIVE power2(_)
power2(n) == IF n <= 0 THEN 1 ELSE 2 * power2(n - 1)

smallest_expr(type) == Const(-power2(type.w - 1), type)

(***************************************************************************)
(* The property builders.  Each takes the checking context cx (effective   *)
(* enable flags en, mode, language standard, pointer flags, allocations),  *)
(* the expression, the guard and the place of the expression, and returns  *)
(* the list of its submissions to add_guarded_property, in call order.     *)
(***************************************************************************)
div_by_zero_check(cx, expr, guard, at) ==
  IF ~cx.en.div_by_zero THEN <<>>
  ELSE Prop(Pred("notequal", <<expr.ops[2], Const(0, expr.ops[2].type)>>),
            "division by zero", "division-by-zero", at, guard)

\* variant: the operand of every shift is required to be non-negative
undefined_shift_check_any_shift(cx, expr, guard, at) ==
  IF ~cx.en.undefined_shift THEN <<>>
  ELSE
    LET distance == expr.ops[2]
        op == expr.ops[1]
        distance_type == distance.type
        op_type == op.type
    IN (IF distance_type.id = "signedbv"
        THEN Prop(Pred("ge", <<distance, Const(0, distance_type)>>),
                  "shift distance is negative", "undefined-shift", at, guard)
        ELSE <<>>)
       \o
       (IF op_type.id \in {"unsignedbv", "signedbv"}
        THEN Prop(Pred("lt", <<distance, Const(op_type.w, distance_type)>>),
                  "shift distance too large", "undefined-shift", at, guard)
             \o
             (IF op_type.id = "signedbv"
              THEN Prop(Pred("ge", <<op, Const(0, op_type)>>),
                        "shift operand is negative", "undefined-shift",
                        at, guard)
              ELSE <<>>)
        ELSE Prop(false_exprt, "shift of non-integer type", "undefined-shift",
                  at, guard))

undefined_shift_check(cx, expr, guard, at) ==
  IF ~cx.en.undefined_shift THEN <<>>
  ELSE
    LET distance == expr.ops[2]
        op == expr.ops[1]
        distance_type == distance.type
        op_type == op.type
    IN (IF distance_type.id = "signedbv"
        THEN Prop(Pred("ge", <<distance, Const(0, distance_type)>>),
                  "shift distance is negative", "undefined-shift", at, guard)
        ELSE <<>>)
       \o
       (IF op_type.id \in {"unsignedbv", "signedbv"}
        THEN Prop(Pred("lt", <<distance, Const(op_type.w, distance_type)>>),
                  "shift distance too large", "undefined-shift", at, guard)
             \o
             (IF op_type.id = "signedbv" /\ expr.id = "shl"
              THEN Prop(Pred("ge", <<op, Const(0, op_type)>>),
                        "shift operand is negative", "undefined-shift",
                        at, guard)
              ELSE <<>>)
        ELSE Prop(false_exprt, "shift of non-integer type", "undefined-shift",
                  at, guard))

mod_by_zero_check(cx, expr, guard, at) ==
  IF ~cx.en.div_by_zero \/ cx.mode = "java" THEN <<>>
  ELSE Prop(Pred("notequal", <<expr.ops[2], Const(0, expr.ops[2].type)>>),
            "division by zero", "division-by-zero", at, guard)

mod_overflow_check(cx, expr, guard, at) ==
  IF ~cx.en.signed_overflow THEN <<>>
  ELSE IF expr.type.id = "signedbv"
  THEN Prop(or_exprt(
              Pred("notequal", <<expr.ops[1], smallest_expr(expr.type)>>),
              Pred("notequal", <<expr.ops[2], Const(-1, expr.ops[2].type)>>)),
            "result of signed mod is not representable", "overflow",
            at, guard)
  ELSE <<>>

\* variant: an unsigned value is taken to fit the signed type of its width
conversion_check_same_width_fits(cx, expr, guard, at) ==
  LET type == expr.type IN
  IF ~cx.en.conversion THEN <<>>
  ELSE IF type.id # "signedbv" /\ type.id # "unsignedbv" THEN <<>>
  ELSE IF expr.id # "typecast" THEN <<>>
  ELSE
    LET op == expr.ops[1]
        old_type == op.type
        new_width == type.w
        old_width == old_type.w
        le(n) == Pred("le", <<op, Const(n, old_type)>>)
        ge(n) == Pred("ge", <<op, Const(n, old_type)>>)
        lt(n) == Pred("lt", <<op, Const(n, old_type)>>)
        gt(n) == Pred("gt", <<op, Const(n, old_type)>>)
    IN
    IF type.id = "signedbv"
    THEN CASE old_type.id = "signedbv" ->
                IF new_width >= old_width THEN <<>>
                ELSE Prop(and_exprt(ge(-power2(new_width - 1)),
                                    le(power2(new_width - 1) - 1)),
                          "arithmetic overflow on signed type conversion",
                          "overflow", at, guard)
           [] old_type.id = "unsignedbv" ->
                IF new_width >= old_width THEN <<>>
                ELSE Prop(le(power2(new_width - 1) - 1),
                  "arithmetic overflow on unsigned to signed type conversion",
                  "overflow", at, guard)
           [] old_type.id = "floatbv" ->
                Prop(and_exprt(gt(-power2(new_width - 1) - 1),
                               lt(power2(new_width - 1))),
             "arithmetic overflow on float to signed integer type conversion",
                     "overflow", at, guard)
           [] OTHER -> <<>>
    ELSE CASE old_type.id = "signedbv" ->
                IF new_width >= old_width - 1
                THEN Prop(ge(0),
                  "arithmetic overflow on signed to unsigned type conversion",
                  "overflow", at, guard)
                ELSE Prop(and_exprt(ge(0), le(power2(new_width) - 1)),
                  "arithmetic overflow on signed to unsigned type conversion",
                  "overflow", at, guard)
           [] old_type.id = "unsignedbv" ->
                IF new_width >= old_width THEN <<>>
                ELSE Prop(le(power2(new_width) - 1),
                "arithmetic overflow on unsigned to unsigned type conversion",
                  "overflow", at, guard)
           [] old_type.id = "floatbv" ->
                Prop(and_exprt(gt(-1), lt(power2(new_width) - 1)),
           "arithmetic overflow on float to unsigned integer type conversion",
                     "overflow", at, guard)
           [] OTHER -> <<>>

conversion_check(cx, expr, guard, at) ==
  LET type == expr.type IN
  IF ~cx.en.conversion THEN <<>>
  ELSE IF type.id # "signedbv" /\ type.id # "unsignedbv" THEN <<>>
  ELSE IF expr.id # "typecast" THEN <<>>
  ELSE
    LET op == expr.ops[1]
        old_type == op.type
        new_width == type.w
        old_width == old_type.w
        le(n) == Pred("le", <<op, Const(n, old_type)>>)
        ge(n) == Pred("ge", <<op, Const(n, old_type)>>)
        lt(n) == Pred("lt", <<op, Const(n, old_type)>>)
        gt(n) == Pred("gt", <<op, Const(n, old_type)>>)
    IN
    IF type.id = "signedbv"
    THEN CASE old_type.id = "signedbv" ->
                IF new_width >= old_width THEN <<>>
                ELSE Prop(and_exprt(ge(-power2(new_width - 1)),
                                    le(power2(new_width - 1) - 1)),
                          "arithmetic overflow on signed type conversion",
                          "overflow", at, guard)
           [] old_type.id = "unsignedbv" ->
                IF new_width >= old_width + 1 THEN <<>>
                ELSE Prop(le(power2(new_width - 1) - 1),
                  "arithmetic overflow on unsigned to signed type conversion",
                  "overflow", at, guard)
           [] old_type.id = "floatbv" ->
                Prop(and_exprt(gt(-power2(new_width - 1) - 1),
                               lt(power2(new_width - 1))),
             "arithmetic overflow on float to signed integer type conversion",
                     "overflow", at, guard)
           [] OTHER -> <<>>
    ELSE CASE old_type.id = "signedbv" ->
                IF new_width >= old_width - 1
                THEN Prop(ge(0),
                  "arithmetic overflow on signed to unsigned type conversion",
                  "overflow", at, guard)
                ELSE Prop(and_exprt(ge(0), le(power2(new_width) - 1)),
                  "arithmetic overflow on signed to unsigned type conversion",
                  "overflow", at, guard)
           [] old_type.id = "unsignedbv" ->
                IF new_width >= old_width THEN <<>>
                ELSE Prop(le(power2(new_width) - 1),
                "arithmetic overflow on unsigned to unsigned type conversion",
                  "overflow", at, guard)
           [] old_type.id = "floatbv" ->
                Prop(and_exprt(gt(-1), lt(power2(new_width) - 1)),
           "arithmetic overflow on float to unsigned integer type conversion",
                     "overflow", at, guard)
           [] OTHER -> <<>>

\* variant: one overflow predicate for the whole n-ary expression
overflow_prefixes_whole_only(expr, i, kind, guard, at) ==
  LET n == Len(expr.ops)
      overflow == Pred("overflow-" \o expr.id,
                       <<[expr EXCEPT !.ops = SubSeq(expr.ops, 1, n - 1)],
                         expr.ops[n]>>)
  IN Prop(not_exprt(overflow),
          "arithmetic overflow on " \o kind \o " " \o expr.id,
          "overflow", at, guard)

\* the overflow predicates of an n-ary operator, one per operand after the
\* first: overflow-op(prefix of i operands, operand i+1)
RECURSIVE overflow_prefixes(_, _, _, _, _)
overflow_prefixes(expr, i, kind, guard, at) ==
  IF i >= Len(expr.ops) THEN <<>>
  ELSE
    LET tmp == IF i = 1 THEN expr.ops[1]
               ELSE [expr EXCEPT !.ops = SubSeq(expr.ops, 1, i)]
        overflow == Pred("overflow-" \o expr.id, <<tmp, expr.ops[i + 1]>>)
    IN Prop(not_exprt(overflow),
            "arithmetic overflow on " \o kind \o " " \o expr.id,
            "overflow", at, guard)
       \o overflow_prefixes(expr, i + 1, kind, guard, at)

integer_overflow_check(cx, expr, guard, at) ==
  LET type == expr.type
      kind == IF type.id = "unsignedbv" THEN "unsigned" ELSE "signed"
  IN
  IF ~cx.en.signed_overflow /\ ~cx.en.unsigned_overflow THEN <<>>
  ELSE IF type.id = "signedbv" /\ ~cx.en.signed_overflow THEN <<>>
  ELSE IF type.id = "unsignedbv" /\ ~cx.en.unsigned_overflow THEN <<>>
  ELSE IF expr.id = "div"
  THEN IF type.id = "signedbv"
       THEN Prop(not_exprt(and_exprt(
                   Pred("equal", <<expr.ops[1], smallest_expr(type)>>),
                   Pred("equal", <<expr.ops[2], Const(-1, type)>>))),
                 "arithmetic overflow on signed division", "overflow",
                 at, guard)
       ELSE <<>>
  ELSE IF expr.id = "unary_minus"
  THEN IF type.id = "signedbv"
       THEN Prop(not_exprt(Pred("equal",
                                <<expr.ops[1], smallest_expr(type)>>)),
                 "arithmetic overflow on signed unary minus", "overflow",
                 at, guard)
       ELSE <<>>
  ELSE IF expr.id = "shl"
  THEN IF type.id = "signedbv"
       THEN
         LET op == expr.ops[1]
             op_type == type
             op_width == type.w
             distance == expr.ops[2]
             distance_type == distance.type
             \* op_type is the signedbv type of the expression
             neg_value_shift ==
               IF op_type.id = "unsignedbv" THEN false_exprt
               ELSE Pred("lt", <<op, Const(0, op_type)>>)
             neg_dist_shift ==
               IF distance_type.id = "unsignedbv" THEN false_exprt
               ELSE Pred("lt", <<op, Const(0, distance_type)>>)
             dist_too_large ==
               Pred("gt", <<distance, Const(op_width, distance_type)>>)
             op_zero == Pred("equal", <<op, Const(0, op_type)>>)
             new_type == [op_type EXCEPT !.w = op_width * 2]
             op_ext == typecast_exprt(op, new_type)
             op_ext_shifted == Bin("shl", new_type, op_ext, distance)
             allow_shift_into_sign_bit ==
               IF cx.mode = "C"
               THEN ~(cx.c_standard \in {"C99", "C11"})
               ELSE IF cx.mode = "cpp"
               THEN ~(cx.cpp_standard \in {"CPP11", "CPP14"})
               ELSE TRUE
             number_of_top_bits ==
               IF allow_shift_into_sign_bit THEN op_width ELSE op_width + 1
             top_bits ==
               Node("extractbits", UInt(number_of_top_bits),
                    <<op_ext_shifted,
                      Const(new_type.w - 1, SizeT),
                      Const(new_type.w - number_of_top_bits, SizeT)>>)
             top_bits_zero ==
               Pred("equal", <<top_bits, Const(0, top_bits.type)>>)
         IN Prop(disjunction(<<neg_value_shift, neg_dist_shift,
                               dist_too_large, op_zero, top_bits_zero>>),
                 "arithmetic overflow on signed shl", "overflow", at, guard)
       ELSE <<>>
  ELSE IF Len(expr.ops) >= 3
  THEN overflow_prefixes(expr, 1, kind, guard, at)
  ELSE Prop(not_exprt(Pred("overflow-" \o expr.id, expr.ops)),
            "arithmetic overflow on " \o kind \o " " \o expr.id,
            "overflow", at, guard)

isinf_exprt(a) == Pred("isinf", <<a>>)
ieee_float_equal_exprt(a, b) == Pred("ieee_float_equal", <<a, b>>)
equal_exprt(a, b) == Pred("equal", <<a, b>>)
plus_infinity(type) == Mk("constant", type, "", "+inf", 0, <<>>)
minus_infinity(type) == Mk("constant", type, "", "-inf", 0, <<>>)

RECURSIVE float_overflow_check(_, _, _, _)
float_overflow_check(cx, expr, guard, at) ==
  IF ~cx.en.float_overflow THEN <<>>
  ELSE IF expr.type.id # "floatbv" THEN <<>>
  ELSE IF expr.id = "typecast"
  THEN IF expr.ops[1].type.id = "floatbv"
       THEN Prop(or_exprt(isinf_exprt(expr.ops[1]),
                          not_exprt(isinf_exprt(expr))),
                 "arithmetic overflow on floating-point typecast",
                 "overflow", at, guard)
       ELSE Prop(not_exprt(isinf_exprt(expr)),
                 "arithmetic overflow on floating-point typecast",
                 "overflow", at, guard)
  ELSE IF expr.id = "div"
  THEN Prop(or_exprt(isinf_exprt(expr.ops[1]), not_exprt(isinf_exprt(expr))),
            "arithmetic overflow on floating-point division",
            "overflow", at, guard)
  ELSE IF expr.id \in {"mod", "unary_minus"} THEN <<>>
  ELSE IF expr.id \in {"plus", "mult", "minus"}
  THEN IF Len(expr.ops) = 2
       THEN LET kind == IF expr.id = "plus" THEN "addition"
                        ELSE IF expr.id = "minus" THEN "subtraction"
                        ELSE "multiplication"
            IN Prop(Pred("or", <<isinf_exprt(expr.ops[1]),
                                 isinf_exprt(expr.ops[2]),
                                 not_exprt(isinf_exprt(expr))>>),
                    "arithmetic overflow on floating-point " \o kind,
                    "overflow", at, guard)
       ELSE IF Len(expr.ops) >= 3
       THEN float_overflow_check(cx, make_binary(expr), guard, at)
       ELSE <<>>
  ELSE <<>>

RECURSIVE nan_check(_, _, _, _)
nan_check(cx, expr, guard, at) ==
  IF ~cx.en.nan THEN <<>>
  ELSE IF expr.type.id # "floatbv" THEN <<>>
  ELSE IF expr.id \notin {"plus", "mult", "div", "minus"} THEN <<>>
  ELSE IF expr.id \in {"mult", "plus"} /\ Len(expr.ops) >= 3
  THEN nan_check(cx, make_binary(expr), guard, at)
  ELSE
    LET op0 == expr.ops[1]
        op1 == expr.ops[2]
        plus_inf == plus_infinity(expr.type)
        minus_inf == minus_infinity(expr.type)
        isnan ==
          CASE expr.id = "div" ->
                 or_exprt(
                   and_exprt(ieee_float_equal_exprt(op0, Const(0, op0.type)),
                             ieee_float_equal_exprt(op1, Const(0, op1.type))),
                   isinf_exprt(op1))
            [] expr.id = "mult" ->
                 or_exprt(
                   and_exprt(isinf_exprt(op0),
                             ieee_float_equal_exprt(op1, Const(0, op1.type))),
                   and_exprt(ieee_float_equal_exprt(op1, Const(0, op1.type)),
                             isinf_exprt(op0)))
            [] expr.id = "plus" ->
                 or_exprt(
                   and_exprt(equal_exprt(op0, minus_inf),
                             equal_exprt(op1, plus_inf)),
                   and_exprt(equal_exprt(op0, plus_inf),
                             equal_exprt(op1, minus_inf)))
            [] expr.id = "minus" ->
                 or_exprt(
                   and_exprt(equal_exprt(op0, plus_inf),
                             equal_exprt(op1, plus_inf)),
                   and_exprt(equal_exprt(op0, minus_inf),
                             equal_exprt(op1, minus_inf)))
    IN Prop(boolean_negate(isnan), "NaN on " \o expr.id, "NaN", at, guard)

pointer_rel_check(cx, expr, guard, at) ==
  IF ~cx.en.pointer THEN <<>>
  ELSE IF expr.ops[1].type.id = "pointer" /\ expr.ops[2].type.id = "pointer"
  THEN Prop(Pred("same_object", <<expr.ops[1], expr.ops[2]>>),
            "same object violation", "pointer", at, guard)
  ELSE <<>>

pointer_overflow_check(cx, expr, guard, at) ==
  IF ~cx.en.pointer_overflow THEN <<>>
  ELSE IF expr.id # "plus" /\ expr.id # "minus" THEN <<>>
  ELSE Prop(not_exprt(Pred("overflow-" \o expr.id, expr.ops)),
            "pointer arithmetic overflow on " \o expr.id,
            "overflow", at, guard)

\* size_of_expr: the size in bytes of an object of the type
size_of_expr(type) ==
  Const(IF type.id \in {"signedbv", "unsignedbv", "floatbv"}
        THEN type.w \div 8
        ELSE IF type.id = "pointer" THEN 8 ELSE 1, SizeT)

\* the in-bounds condition of one allocation <<base, size>>; the variant
\* does not compare the upper end of the access
alloc_disjunct_lower_bound_only(a, address, size) ==
  LET int_ptr == typecast_exprt(address, a[1].type)
  IN and_exprt(Pred("le", <<a[1], int_ptr>>), true_exprt)

alloc_disjunct(a, address, size) ==
  LET int_ptr == typecast_exprt(address, a[1].type)
  IN and_exprt(Pred("le", <<a[1], int_ptr>>),
               Pred("le", <<Bin("plus", a[1].type, int_ptr, size),
                            Bin("plus", a[1].type, a[1], a[2])>>))

conditiont(assertion, description) ==
  <<[assertion |-> assertion, description |-> description]>>

\* local_bitvector_analysis->get(current_target, address): the flag set
\* recorded for the pointer
local_bitvector_analysis_get(cx, address) == cx.flags

address_check(cx, address, size) ==
  LET flags == local_bitvector_analysis_get(cx, address)
      is(f) == f \in flags
  IN
  IF cx.mode = "java"
  THEN IF is("unknown") \/ is("null")
       THEN conditiont(Pred("notequal", <<address, null_pointer_exprt>>),
                       "reference is null")
       ELSE <<>>
  ELSE
    LET alloc_disjuncts ==
          [k \in 1..Len(cx.allocations) |->
             alloc_disjunct(cx.allocations[k], address, size)]
        in_bounds == disjunction(alloc_disjuncts)
        P(id) == Pred(id, <<address>>)
        dynamic_bounds_violation ==
          or_exprt(Pred("dynamic_object_lower_bound", <<address>>),
                   Pred("dynamic_object_upper_bound", <<address, size>>))
        object_bounds_violation ==
          or_exprt(Pred("object_lower_bound", <<address>>),
                   Pred("object_upper_bound", <<address, size>>))
    IN
      (IF is("unknown") \/ is("null")
       THEN conditiont(or_exprt(in_bounds, not_exprt(P("null_pointer"))),
                       "pointer NULL")
       ELSE <<>>)
      \o
      (IF is("unknown")
       THEN conditiont(not_exprt(P("is_invalid_pointer")), "pointer invalid")
       ELSE <<>>)
      \o
      (IF is("uninitialized")
       THEN conditiont(or_exprt(in_bounds, not_exprt(P("is_invalid_pointer"))),
                       "pointer uninitialized")
       ELSE <<>>)
      \o
      (IF is("unknown") \/ is("dynamic_heap")
       THEN conditiont(or_exprt(in_bounds, not_exprt(P("deallocated"))),
                       "deallocated dynamic object")
       ELSE <<>>)
      \o
      (IF is("unknown") \/ is("dynamic_local")
       THEN conditiont(or_exprt(in_bounds, not_exprt(P("dead_object"))),
                       "dead object")
       ELSE <<>>)
      \o
      (IF is("unknown") \/ is("dynamic_heap")
       THEN conditiont(
              or_exprt(in_bounds,
                       implies_exprt(P("malloc_object"),
                                     not_exprt(dynamic_bounds_violation))),
              "pointer outside dynamic object bounds")
       ELSE <<>>)
      \o
      (IF is("unknown") \/ is("dynamic_local") \/ is("static_lifetime")
       THEN conditiont(
              or_exprt(in_bounds,
                       implies_exprt(not_exprt(P("dynamic_object")),
                                     not_exprt(object_bounds_violation))),
              "pointer outside object bounds")
       ELSE <<>>)
      \o
      (IF is("unknown") \/ is("integer_address")
       THEN conditiont(implies_exprt(P("integer_address"), in_bounds),
                       "invalid integer address")
       ELSE <<>>)

RECURSIVE conditions_to_props(_, _, _, _, _)
conditions_to_props(conditions, prefix, class, guard, at) ==
  IF conditions = <<>> THEN <<>>
  ELSE Prop(Head(conditions).assertion,
            prefix \o Head(conditions).description, class, at, guard)
       \o conditions_to_props(Tail(conditions), prefix, class, guard, at)

\* expr is the dereference handed in; at is the place of src_expr
pointer_validity_check(cx, expr, guard, at) ==
  IF ~cx.en.pointer THEN <<>>
  ELSE conditions_to_props(
         address_check(cx, expr.ops[1], size_of_expr(expr.type)),
         "dereference failure: ", "pointer dereference", guard, at)

\* array_name: the printed name of the array operand
array_name(expr) ==
  IF expr.id = "symbol" THEN "array `" \o expr.identifier \o "'" ELSE "array"

\* object_descriptor_exprt::build: the root object and the byte offset of
\* an access path of index and member nodes
RECURSIVE ode_root_object(_)
ode_root_object(expr) ==
  IF expr.id \in {"index", "member"} /\ has_operands(expr)
  THEN ode_root_object(expr.ops[1]) ELSE expr
ode_offset(expr) == Un("object_descriptor_offset", OffsetT, expr)

\* numeric_cast<mp_integer>: <<n>> for an integer constant, <<>> otherwise
numeric_cast(e) == IF IsConst(e) /\ e.value = "#" THEN <<e.num>> ELSE <<>>

dynamic_size == Sym("__CPROVER_malloc_size", SizeT)
dynamic_object(p) == Pred("dynamic_object", <<p>>)
malloc_object(p) == Pred("malloc_object", <<p>>)
object_size(p) == Un("object_size", SizeT, p)
pointer_offset(p) == Un("pointer_offset", OffsetT, p)

\* the size expression of an array type: nil (-1), infinity (-2) or a
\* constant; the variant is one too large
array_size_one_more(type) ==
  IF type.w = -1 THEN Mk("nil", NoType, "", "", 0, <<>>)
  ELSE IF type.w = -2 THEN Mk("infinity", SizeT, "", "", 0, <<>>)
  ELSE Const(type.w + 1, SizeT)

array_size(type) ==
  IF type.w = -1 THEN Mk("nil", NoType, "", "", 0, <<>>)
  ELSE IF type.w = -2 THEN Mk("infinity", SizeT, "", "", 0, <<>>)
  ELSE Const(type.w, SizeT)

\* a raised exception is carried in the list of submissions
Throw(msg, at) == Prop(false_exprt, msg, "#throw", at, TrueGuard)

bounds_check_alloc_disjunct(a, pointer, offset) ==
  LET int_ptr == typecast_exprt(pointer, a[1].type)
  IN and_exprt(Pred("le", <<a[1], int_ptr>>),
               Pred("lt", <<Bin("plus", a[1].type, int_ptr,
                                conditional_cast(offset, int_ptr.type)),
                            Bin("plus", a[1].type, a[1], a[2])>>))

bounds_check(cx, expr, guard, at) ==
  LET array_type == expr.ops[1].type
      name == array_name(expr.ops[1])
      index == expr.ops[2]
      root_object == ode_root_object(expr)
      offset == ode_offset(expr)
      i == numeric_cast(index)
      lower ==
        IF index.type.id # "unsignedbv"
           /\ ~(index.id = "typecast" /\ index.ops[1].type.id = "unsignedbv")
           /\ (i = <<>> \/ i[1] < 0)
        THEN LET effective_offset ==
                   IF root_object.id = "dereference"
                   THEN Bin("plus", OffsetT,
                            pointer_offset(root_object.ops[1]), offset)
                   ELSE offset
             IN Prop(Pred("ge", <<effective_offset, Const(0, OffsetT)>>),
                     name \o " lower bound", "array bounds", at, guard)
        ELSE <<>>
      pointer == root_object.ops[1]
      type_size == size_of_expr(root_object.type)
      type_matches_size ==
        IF root_object.id = "dereference"
        THEN Node("if", BoolT,
               <<dynamic_object(pointer),
                 and_exprt(malloc_object(pointer),
                           equal_exprt(conditional_cast(dynamic_size,
                                                        type_size.type),
                                       type_size)),
                 equal_exprt(conditional_cast(object_size(pointer),
                                              type_size.type),
                             type_size)>>)
        ELSE true_exprt
      dynamic ==
        IF root_object.id = "dereference"
        THEN LET size == Node("if", SizeT,
                           <<dynamic_object(pointer),
                             typecast_exprt(dynamic_size, SizeT),
                             object_size(pointer)>>)
                 effective_offset ==
                   Bin("plus", OffsetT, offset, pointer_offset(pointer))
                 size_casted == conditional_cast(size, OffsetT)
                 inequality == Pred("lt", <<effective_offset, size_casted>>)
                 alloc_disjuncts ==
                   [k \in 1..Len(cx.allocations) |->
                      bounds_check_alloc_disjunct(cx.allocations[k],
                                                  pointer, offset)]
                 precond ==
                   Pred("or", <<disjunction(alloc_disjuncts),
                                and_exprt(dynamic_object(pointer),
                                          not_exprt(malloc_object(pointer))),
                                inequality>>)
             IN Prop(precond, name \o " dynamic object upper bound",
                     "array bounds", at, guard)
        ELSE <<>>
      size == array_size(array_type)
      upper ==
        IF size.id = "nil" THEN <<>>
        ELSE IF size.id = "infinity" THEN <<>>
        ELSE IF size.num = 0 /\ expr.ops[1].id = "member"
        THEN Prop(implies_exprt(type_matches_size,
                    Pred("lt", <<conditional_cast(offset, type_size.type),
                                 type_size>>)),
                  name \o " upper bound", "array bounds", at, guard)
        ELSE Prop(implies_exprt(type_matches_size,
                    Pred("lt", <<index,
                                 conditional_cast(size, index.type)>>)),
                  name \o " upper bound", "array bounds", at, guard)
  IN
  IF ~cx.en.bounds THEN <<>>
  ELSE IF expr.value = "no_bounds_check" THEN <<>>
  ELSE IF array_type.id = "pointer"
  THEN Throw("index got pointer as array type", at)
  ELSE IF array_type.id # "array" /\ array_type.id # "vector"
  THEN Throw("bounds check expected array or vector type, got "
             \o array_type.id, at)
  ELSE lower \o dynamic \o upper

(***************************************************************************)
(* The walker.  The guard is passed by reference in the source: every      *)
(* walker operator returns the submissions it made (out) and the guard as  *)
(* it leaves it (guard).                                                   *)
(***************************************************************************)
Walked(out, guard) == [out |-> out, guard |-> guard]

\* member_offset_expr: <<offset>> when the offset of the component is known
member_offset_expr(member) ==
  IF member.value = "no_offset" THEN <<>> ELSE <<Const(member.num, SizeT)>>

check_rec_div(cx, div_expr, guard, at) ==
  div_by_zero_check(cx, div_expr, guard, at)
  \o (IF div_expr.type.id = "signedbv"
      THEN integer_overflow_check(cx, div_expr, guard, at)
      ELSE IF div_expr.type.id = "floatbv"
      THEN nan_check(cx, div_expr, guard, at)
           \o float_overflow_check(cx, div_expr, guard, at)
      ELSE <<>>)

check_rec_arithmetic_op(cx, expr, guard, at) ==
  IF expr.type.id \in {"signedbv", "unsignedbv"}
  THEN integer_overflow_check(cx, expr, guard, at)
  ELSE IF expr.type.id = "floatbv"
  THEN nan_check(cx, expr, guard, at)
       \o float_overflow_check(cx, expr, guard, at)
  ELSE IF expr.type.id = "pointer"
  THEN pointer_overflow_check(cx, expr, guard, at)
  ELSE <<>>

\* the checks of check_rec on the node itself, after its operands
check_rec_node(cx, expr, guard, at) ==
  IF expr.id = "index" THEN bounds_check(cx, expr, guard, at)
  ELSE IF expr.id = "div" THEN check_rec_div(cx, expr, guard, at)
  ELSE IF expr.id \in {"shl", "ashr", "lshr"}
  THEN undefined_shift_check(cx, expr, guard, at)
       \o (IF expr.id = "shl" /\ expr.type.id = "signedbv"
           THEN integer_overflow_check(cx, expr, guard, at) ELSE <<>>)
  ELSE IF expr.id = "mod"
  THEN mod_by_zero_check(cx, expr, guard, at)
       \o mod_overflow_check(cx, expr, guard, at)
  ELSE IF expr.id \in {"plus", "minus", "mult", "unary_minus"}
  THEN check_rec_arithmetic_op(cx, expr, guard, at)
  ELSE IF expr.id = "typecast" THEN conversion_check(cx, expr, guard, at)
  ELSE IF expr.id \in {"le", "lt", "ge", "gt"}
  THEN pointer_rel_check(cx, expr, guard, at)
  ELSE IF expr.id = "dereference"
  THEN pointer_validity_check(cx, expr, guard, at)
  ELSE <<>>

RECURSIVE check_rec(_, _, _, _)
RECURSIVE check_rec_address(_, _, _, _)
RECURSIVE check_rec_operands(_, _, _, _, _)
RECURSIVE check_rec_address_operands(_, _, _, _, _)
RECURSIVE check_rec_logical_loop(_, _, _, _, _)

\* forall_operands(it, expr) check_rec(*it, guard), from operand i on
check_rec_operands(cx, expr, guard, at, i) ==
  IF i > Len(expr.ops) THEN Walked(<<>>, guard)
  ELSE LET r == check_rec(cx, expr.ops[i], guard, Down(at, i))
           rest == check_rec_operands(cx, expr, r.guard, at, i + 1)
       IN Walked(r.out \o rest.out, rest.guard)

check_rec_address_operands(cx, expr, guard, at, i) ==
  IF i > Len(expr.ops) THEN Walked(<<>>, guard)
  ELSE LET r == check_rec_address(cx, expr.ops[i], guard, Down(at, i))
           rest == check_rec_address_operands(cx, expr, r.guard, at, i + 1)
       IN Walked(r.out \o rest.out, rest.guard)

\* variant: a dereference on the address path is walked as a value
check_rec_address_deref_as_value(cx, expr, guard, at) ==
  IF expr.id \in {"exists", "forall"} THEN Walked(<<>>, guard)
  ELSE IF expr.id = "dereference"
  THEN check_rec(cx, expr, guard, at)
  ELSE IF expr.id = "index"
  THEN LET r1 == check_rec_address(cx, expr.ops[1], guard, Down(at, 1))
           r2 == check_rec(cx, expr.ops[2], r1.guard, Down(at, 2))
       IN Walked(r1.out \o r2.out, r2.guard)
  ELSE check_rec_address_operands(cx, expr, guard, at, 1)

check_rec_address(cx, expr, guard, at) ==
  IF expr.id \in {"exists", "forall"} THEN Walked(<<>>, guard)
  ELSE IF expr.id = "dereference"
  THEN check_rec(cx, expr.ops[1], guard, Down(at, 1))
  ELSE IF expr.id = "index"
  THEN LET r1 == check_rec_address(cx, expr.ops[1], guard, Down(at, 1))
           r2 == check_rec(cx, expr.ops[2], r1.guard, Down(at, 2))
       IN Walked(r1.out \o r2.out, r2.guard)
  ELSE check_rec_address_operands(cx, expr, guard, at, 1)

\* the loop of check_rec_logical_op, from operand i on
check_rec_logical_loop(cx, expr, guard, at, i) ==
  IF i > Len(expr.ops) THEN Walked(<<>>, guard)
  ELSE LET op == expr.ops[i]
           r == check_rec(cx, op, guard, Down(at, i))
           g == guard_add(r.guard,
                          IF expr.id = "or" THEN boolean_negate(op) ELSE op)
           rest == check_rec_logical_loop(cx, expr, g, at, i + 1)
       IN Walked(r.out \o rest.out, rest.guard)

check_rec_logical_op(cx, expr, guard, at) ==
  LET old_guard == guard
      r == check_rec_logical_loop(cx, expr, guard, at, 1)
  IN Walked(r.out, old_guard)

check_rec_if(cx, if_expr, guard, at) ==
  LET cond == if_expr.ops[1]
      r1 == check_rec(cx, cond, guard, Down(at, 1))
      old_guard2 == r1.guard
      r2 == check_rec(cx, if_expr.ops[2], guard_add(r1.guard, cond),
                      Down(at, 2))
      guard2 == old_guard2
      old_guard3 == guard2
      r3 == check_rec(cx, if_expr.ops[3],
                      guard_add(guard2, not_exprt(cond)), Down(at, 3))
      guard3 == old_guard3
  IN Walked(r1.out \o r2.out \o r3.out, guard3)

\* returns also done: no more checks are required for the member
check_rec_member(cx, member, guard, at) ==
  LET deref == member.ops[1]
      r == check_rec(cx, deref.ops[1], guard, Down(Down(at, 1), 1))
      member_offset_opt == member_offset_expr(member)
      new_pointer_type == PtrTo(member.type.w)
      char_pointer == conditional_cast(deref.ops[1], CharPtrT)
      new_address_casted ==
        conditional_cast(
          Bin("plus", char_pointer.type, char_pointer,
              conditional_cast(member_offset_opt[1], OffsetT)),
          new_pointer_type)
      new_deref == Un("dereference", member.type, new_address_casted)
  IN
  IF ~cx.en.pointer
  THEN [done |-> TRUE, out |-> r.out, guard |-> r.guard]
  ELSE IF member_offset_opt # <<>>
  THEN [done |-> TRUE,
        out |-> r.out \o pointer_validity_check(cx, new_deref, r.guard, at),
        guard |-> r.guard]
  ELSE [done |-> FALSE, out |-> r.out, guard |-> r.guard]

\* the checks of the node itself, r the walk of its operands
check_rec_checks(cx, expr, at, out, r) ==
  Walked(out \o r.out \o check_rec_node(cx, expr, r.guard, at), r.guard)

\* the operands and the node, m the outcome of check_rec_member
check_rec_operands_and_node(cx, expr, at, m) ==
  IF m.done THEN Walked(m.out, m.guard)
  ELSE check_rec_checks(cx, expr, at, m.out,
                        check_rec_operands(cx, expr, m.guard, at, 1))

check_rec(cx, expr, guard, at) ==
  IF expr.id \in {"exists", "forall"} THEN Walked(<<>>, guard)
  ELSE IF expr.id = "address_of"
  THEN check_rec_address(cx, expr.ops[1], guard, Down(at, 1))
  ELSE IF expr.id \in {"and", "or"}
  THEN check_rec_logical_op(cx, expr, guard, at)
  ELSE IF expr.id = "if" THEN check_rec_if(cx, expr, guard, at)
  ELSE
    check_rec_operands_and_node(
      cx, expr, at,
      IF expr.id = "member" /\ has_operands(expr)
         /\ expr.ops[1].id = "dereference"
      THEN check_rec_member(cx, expr, guard, at)
      ELSE [done |-> FALSE, out |-> <<>>, guard |-> guard])

\* check: the walk of one root expression of an instruction
check(cx, expr, at) == check_rec(cx, expr, TrueGuard, at)

(***************************************************************************)
(* rw_ok_check: expansion of the r_ok and w_ok predicates.  The result is  *)
(* <<>> when the expression holds none, <<e>> for the rewritten one.       *)
(***************************************************************************)
RECURSIVE conditions_assertions(_)
conditions_assertions(conditions) ==
  IF conditions = <<>> THEN <<>>
  ELSE <<Head(conditions).assertion>> \o conditions_assertions(Tail(conditions))

\* variant: only an r_ok or w_ok at the root is rewritten
rw_ok_check_root_only(cx, expr) ==
  IF expr.id \in {"r_ok", "w_ok"}
  THEN <<conjunction(conditions_assertions(
           address_check(cx, expr.ops[1], expr.ops[2])))>>
  ELSE <<>>

RECURSIVE rw_ok_check(_, _)
rw_ok_check(cx, expr) ==
  LET results == [k \in 1..Len(expr.ops) |-> rw_ok_check(cx, expr.ops[k])]
      modified == \E k \in 1..Len(expr.ops) : results[k] # <<>>
      new_ops == [k \in 1..Len(expr.ops) |->
                    IF results[k] # <<>> THEN results[k][1] ELSE expr.ops[k]]
      rewritten == [expr EXCEPT !.ops = new_ops]
  IN
  IF expr.id \in {"r_ok", "w_ok"}
  THEN <<conjunction(conditions_assertions(
           address_check(cx, rewritten.ops[1], rewritten.ops[2])))>>
  ELSE IF modified THEN <<rewritten>>
  ELSE <<>>

(***************************************************************************)
(* Instructions of a goto program.  A node of the instruction list has an  *)
(* identity (nid) that branches refer to, and holds an instruction.        *)
(* History fields of an instruction, not read by the pass: oid, the        *)
(* number of the original instruction it is or was generated for; gen,     *)
(* whether the pass generated it; prop, the submission it was made from;   *)
(* otarget, the branch target before the pass.                             *)
(***************************************************************************)
SourceLocation(line, user_provided, property_class, pragmas) ==
  [nil |-> FALSE, line |-> line, user_provided |-> user_provided,
   property_class |-> property_class, comment |-> "", pragmas |-> pragmas]
\* source_locationt::nil(), what find_source_location() returns for an
\* expression that carries no location
NilLocation == [SourceLocation(0, FALSE, "", {}) EXCEPT !.nil = TRUE]
\* a location that names the function only
FunctionLocation == SourceLocation(0, FALSE, "", {})

Instr(type, code, cond, target, labels, loc) ==
  [type |-> type, code |-> code, cond |-> cond, target |-> target,
   labels |-> labels, loc |-> loc, oid |-> 0, gen |-> FALSE, prop |-> <<>>,
   otarget |-> target]

Code(statement, ops) == Mk("code", EmptyT, "", statement, 0, ops)
NoCode == Mk("nil", NoType, "", "", 0, <<>>)

has_condition(i) == i.type \in {"GOTO", "ASSUME", "ASSERT"}

has_rw_ok(e) == has_subexpr(e, {"r_ok", "w_ok"})

\* goto_programt::make_assertion / make_assumption
make_assertion(g, loc) == Instr("ASSERT", NoCode, g, 0, {}, loc)
make_assumption(g, loc) == Instr("ASSUME", NoCode, g, 0, {}, loc)
make_assignment(lhs, rhs, loc) ==
  Instr("ASSIGN", Code("assign", <<lhs, rhs>>), true_exprt, 0, {}, loc)

(***************************************************************************)
(* add_guarded_property on the emitter state st: the assertion cache       *)
(* (assertions), the patch buffer (new_code) and whether an exception was  *)
(* raised (thrown).  cx.opts are the options of the run.                   *)
(***************************************************************************)
EmitterState(cache, new_code) ==
  [assertions |-> cache, new_code |-> new_code, thrown |-> FALSE]

\* variant: the guard is dropped from the emitted condition
add_guarded_property_unguarded(cx, st, p, loc) ==
  LET simplified_expr ==
        IF cx.opts.simplify THEN simplify_expr(p.asserted) ELSE p.asserted
      t == IF cx.opts.assert_to_assume
           THEN make_assumption(simplified_expr, loc)
           ELSE make_assertion(simplified_expr, loc)
  IN
  IF ~cx.opts.retain_trivial /\ IsTrue(simplified_expr) THEN st
  ELSE IF simplified_expr \in st.assertions THEN st
  ELSE [st EXCEPT
          !.assertions = @ \cup {simplified_expr},
          !.new_code = Append(@,
             [t EXCEPT !.loc.comment = p.comment,
                       !.loc.property_class = p.class,
                       !.gen = TRUE, !.prop = <<p>>])]

add_guarded_property(cx, st, p, loc) ==
  LET simplified_expr ==
        IF cx.opts.simplify THEN simplify_expr(p.asserted) ELSE p.asserted
      guarded_expr ==
        IF guard_is_true(p.guard) THEN simplified_expr
        ELSE implies_exprt(guard_as_expr(p.guard), simplified_expr)
      t == IF cx.opts.assert_to_assume
           THEN make_assumption(guarded_expr, loc)
           ELSE make_assertion(guarded_expr, loc)
  IN
  IF ~cx.opts.retain_trivial /\ IsTrue(simplified_expr) THEN st
  ELSE IF guarded_expr \in st.assertions THEN st
  ELSE [st EXCEPT
          !.assertions = @ \cup {guarded_expr},
          !.new_code = Append(@,
             [t EXCEPT !.loc.comment = p.comment,
                       !.loc.property_class = p.class,
                       !.gen = TRUE, !.prop = <<p>>])]

\* the submissions of one walk, in order; an exception ends the walk
RECURSIVE add_properties(_, _, _, _)
add_properties(cx, st, props, loc) ==
  IF props = <<>> \/ st.thrown THEN st
  ELSE IF Head(props).class = "#throw" THEN [st EXCEPT !.thrown = TRUE]
  ELSE add_properties(cx, add_guarded_property(cx, st, Head(props), loc),
                      Tail(props), loc)

\* check(expr) of the driver: walk and emit
check_and_emit(cx, st, expr, at, loc) ==
  add_properties(cx, st, check(cx, expr, at).out, loc)

(***************************************************************************)
(* invalidate                                                              *)
(***************************************************************************)
\* variant: only the obligations that mention the symbol are dropped
RECURSIVE invalidate_symbol_only(_, _)
invalidate_symbol_only(cache, lhs) ==
  IF lhs.id = "index" THEN invalidate_symbol_only(cache, lhs.ops[1])
  ELSE IF lhs.id = "member" THEN invalidate_symbol_only(cache, lhs.ops[1])
  ELSE IF lhs.id = "symbol"
  THEN {a \in cache : ~has_symbol(a, {lhs.identifier})}
  ELSE {}

RECURSIVE invalidate(_, _)
invalidate(cache, lhs) ==
  IF lhs.id = "index" THEN invalidate(cache, lhs.ops[1])
  ELSE IF lhs.id = "member" THEN invalidate(cache, lhs.ops[1])
  ELSE IF lhs.id = "symbol"
  THEN {a \in cache :
          ~(has_symbol(a, {lhs.identifier})
            \/ has_subexpr(a, {"dereference"}))}
  ELSE {}

(***************************************************************************)
(* flag_resett and the pragmas of an instruction                           *)
(***************************************************************************)
PragmaOf ==
  [bounds |-> "disable:bounds-check",
   pointer |-> "disable:pointer-check",
   memory_leak |-> "disable:memory-leak-check",
   div_by_zero |-> "disable:div-by-zero-check",
   signed_overflow |-> "disable:signed-overflow-check",
   unsigned_overflow |-> "disable:unsigned-overflow-check",
   pointer_overflow |-> "disable:pointer-overflow-check",
   float_overflow |-> "disable:float-overflow-check",
   conversion |-> "disable:conversion-check",
   undefined_shift |-> "disable:undefined-shift-check",
   nan |-> "disable:nan-check"]

CheckFlags == DOMAIN PragmaOf

\* the flags in the order in which the loop over the pragmas tests them
PragmaOrder ==
  <<"bounds", "pointer", "memory_leak", "div_by_zero", "signed_overflow",
    "unsigned_overflow", "pointer_overflow", "float_overflow", "conversion",
    "undefined_shift", "nan">>

\* a flag_resett over the flags en of the checker: nothing saved yet
flag_resett(en) == [flags |-> en, flags_to_reset |-> <<>>]

\* flag_resett::set_flag(flag, new_value)
set_flag(resetter, flag, new_value) ==
  IF resetter.flags[flag] # new_value
  THEN [flags |-> [resetter.flags EXCEPT ![flag] = new_value],
        flags_to_reset |->
          Append(resetter.flags_to_reset, <<flag, resetter.flags[flag]>>)]
  ELSE resetter

\* for(const auto &d : pragmas) ... set_flag(enable_..., false), from
\* flag k of the order on
RECURSIVE set_pragma_flags(_, _, _)
set_pragma_flags(resetter, pragmas, k) ==
  IF k > Len(PragmaOrder) THEN resetter
  ELSE set_pragma_flags(
         IF PragmaOf[PragmaOrder[k]] \in pragmas
         THEN set_flag(resetter, PragmaOrder[k], FALSE)
         ELSE resetter,
         pragmas, k + 1)

\* flag_resett::~flag_resett(): the saved values are written back
RECURSIVE destroy_flag_resett(_, _)
destroy_flag_resett(flags, flags_to_reset) ==
  IF flags_to_reset = <<>> THEN flags
  ELSE destroy_flag_resett(
         [flags EXCEPT ![Head(flags_to_reset)[1]] = Head(flags_to_reset)[2]],
         Tail(flags_to_reset))

\* the flags while the instruction is processed
apply_pragmas(en, pragmas) ==
  set_pragma_flags(flag_resett(en), pragmas, 1).flags

\* the flags when the flag_resett of the iteration has gone out of scope;
\* the variant leaves them as the pragmas set them
flags_after_instruction_unrestored(resetter) ==
  resetter.flags

flags_after_instruction(resetter) ==
  destroy_flag_resett(resetter.flags, resetter.flags_to_reset)

(***************************************************************************)
(* One iteration of the loop of goto_checkt::goto_check, up to the splice: *)
(* the instruction as the iteration leaves it, the emitter state and       *)
(* whether the instruction was turned into a skip.                         *)
(***************************************************************************)
Processed(ins, st, skipped) == [ins |-> ins, st |-> st, skipped |-> skipped]

rw_ok_rewrite(cx, e) ==
  IF has_rw_ok(e)
  THEN LET r == rw_ok_check(cx, e) IN IF r # <<>> THEN r[1] ELSE e
  ELSE e

\* variant: the obligation is not marked user-provided
error_label_instruction_unmarked(cx, i, label) ==
  LET t == IF cx.opts.assert_to_assume
           THEN make_assumption(false_exprt, i.loc)
           ELSE make_assertion(false_exprt, i.loc)
  IN [t EXCEPT !.loc.property_class = "error label",
               !.loc.comment = "error label " \o label,
               !.gen = TRUE]

error_label_instruction(cx, i, label) ==
  LET t == IF cx.opts.assert_to_assume
           THEN make_assumption(false_exprt, i.loc)
           ELSE make_assertion(false_exprt, i.loc)
  IN [t EXCEPT !.loc.property_class = "error label",
               !.loc.comment = "error label " \o label,
               !.loc.user_provided = TRUE,
               !.gen = TRUE]

RECURSIVE error_labels_step(_, _, _, _)
error_labels_step(cx, st, i, labels) ==
  IF labels = <<>> THEN st
  ELSE error_labels_step(
         cx,
         IF Head(labels) \in i.labels
         THEN [st EXCEPT !.new_code =
                 Append(@, error_label_instruction(cx, i, Head(labels)))]
         ELSE st,
         i, Tail(labels))

\* for(op : operands) check(op), from operand k on
RECURSIVE check_operands_and_emit(_, _, _, _, _)
check_operands_and_emit(cx, st, code, k, loc) ==
  IF k > Len(code.ops) THEN st
  ELSE check_operands_and_emit(
         cx, check_and_emit(cx, st, code.ops[k], At("code", <<k>>), loc),
         code, k + 1, loc)

dead_object_symbol == Sym("__CPROVER_dead_object", CharPtrT)
memory_leak_symbol == Sym("__CPROVER_memory_leak", CharPtrT)
side_effect_expr_nondet == Mk("side_effect", BoolT, "", "nondet", 0, <<>>)

process_other(cx, st, i) ==
  IF i.code.value = "expression"
  THEN Processed(i, check_and_emit(cx, st, i.code, At("code", <<>>),
                                   NilLocation),
                 FALSE)
  ELSE IF i.code.value = "printf"
  THEN Processed(i, check_operands_and_emit(cx, st, i.code, 1, NilLocation),
                 FALSE)
  ELSE Processed(i, st, FALSE)

process_assign(cx, st, i) ==
  LET lhs == i.code.ops[1]
      rhs == i.code.ops[2]
      s1 == check_and_emit(cx, st, lhs, At("code", <<1>>), NilLocation)
      s2 == check_and_emit(cx, s1, rhs, At("code", <<2>>), NilLocation)
      s3 == [s2 EXCEPT !.assertions = invalidate(@, lhs)]
  IN Processed([i EXCEPT !.code.ops[2] = rw_ok_rewrite(cx, rhs)], s3, FALSE)

process_function_call(cx, st, i) ==
  LET function == i.code.ops[2]
      arguments == i.code.ops[3].ops
      pointer == arguments[1]
      flags == local_bitvector_analysis_get(cx, pointer)
      s1 == IF cx.mode = "java" /\ cx.en.pointer /\ arguments # <<>>
               /\ function.type.id = "code" /\ function.type.w = 1
               /\ ("unknown" \in flags \/ "null" \in flags)
            THEN add_properties(
                   cx, st,
                   Prop(Pred("notequal", <<pointer, null_pointer_exprt>>),
                        "this is null on method invocation",
                        "pointer dereference", At("code", <<3, 1>>),
                        TrueGuard),
                   i.loc)
            ELSE st
      s2 == check_operands_and_emit(cx, s1, i.code, 1, NilLocation)
  IN Processed(i, [s2 EXCEPT !.assertions = {}], FALSE)

process_return(cx, st, i) ==
  IF Len(i.code.ops) = 1
  THEN LET return_value == i.code.ops[1]
           s1 == check_and_emit(cx, st, return_value, At("code", <<1>>),
                                NilLocation)
           s2 == [s1 EXCEPT !.assertions = invalidate(@, return_value)]
       IN Processed([i EXCEPT !.code.ops[1] =
                       rw_ok_rewrite(cx, return_value)], s2, FALSE)
  ELSE Processed(i, st, FALSE)

process_throw(cx, st, i) ==
  LET s1 == IF i.code.value = "expression" /\ Len(i.code.ops) = 1
               /\ Len(i.code.ops[1].ops) = 1
            THEN add_properties(
                   cx, st,
                   Prop(Pred("notequal",
                             <<i.code.ops[1].ops[1], null_pointer_exprt>>),
                        "throwing null", "pointer dereference",
                        At("code", <<1, 1>>), TrueGuard),
                   i.loc)
            ELSE st
  IN Processed(i, [s1 EXCEPT !.assertions = {}], FALSE)

turn_into_skip(i) ==
  [i EXCEPT !.type = "SKIP", !.code = NoCode, !.cond = true_exprt,
            !.target = 0]

\* variant: an error-label assertion is treated as any user assertion
process_assert_no_error_label(cx, st, i) ==
  LET is_user_provided == i.loc.user_provided IN
  IF \/ (is_user_provided /\ ~cx.opts.assertions)
     \/ (~is_user_provided /\ ~cx.opts.built_in_assertions)
  THEN Processed(turn_into_skip(i), st, TRUE)
  ELSE Processed(i, st, FALSE)

process_assert(cx, st, i) ==
  LET is_user_provided == i.loc.user_provided IN
  IF \/ (is_user_provided /\ ~cx.opts.assertions
         /\ i.loc.property_class # "error label")
     \/ (~is_user_provided /\ ~cx.opts.built_in_assertions)
  THEN Processed(turn_into_skip(i), st, TRUE)
  ELSE Processed(i, st, FALSE)

process_assume(cx, st, i) ==
  IF ~cx.opts.assumptions
  THEN Processed(turn_into_skip(i), st, TRUE)
  ELSE Processed(i, st, FALSE)

process_dead(cx, st, i) ==
  LET variable == i.code.ops[1]
      lhs == dead_object_symbol
      address_of_expr ==
        conditional_cast(Un("address_of", PtrTo(variable.type.w), variable),
                         lhs.type)
      rhs == Node("if", lhs.type,
                  <<side_effect_expr_nondet, address_of_expr, lhs>>)
      t == [make_assignment(lhs, rhs, i.loc) EXCEPT !.gen = TRUE]
  IN
  IF cx.en.pointer /\ variable.identifier \in cx.dirty
  THEN Processed(i, [st EXCEPT !.new_code = Append(@, t)], FALSE)
  ELSE Processed(i, st, FALSE)

process_end_function(cx, st, i) ==
  LET leak_expr == memory_leak_symbol
      t == [make_assignment(leak_expr, leak_expr, NilLocation)
              EXCEPT !.gen = TRUE]
      eq == equal_exprt(leak_expr, null_pointer_exprt)
      s1 == [st EXCEPT !.new_code = Append(@, t)]
  IN
  IF cx.entry_point /\ cx.en.memory_leak
  THEN Processed(i,
         add_properties(
           cx, s1,
           Prop(eq, "dynamically allocated memory never freed",
                "memory-leak", At("leak", <<>>), TrueGuard),
           FunctionLocation),
         FALSE)
  ELSE Processed(i, st, FALSE)

\* the clearing of the cache at the head of the iteration; the variant
\* keeps the cache at a branch target
clear_at_instruction_retain_trivial_only(cx, target, cache) ==
  IF cx.opts.retain_trivial THEN {} ELSE cache

clear_at_instruction(cx, target, cache) ==
  IF cx.opts.retain_trivial \/ target THEN {} ELSE cache

\* the walk of the condition of the instruction and its rewriting
process_condition(cx, st, i) ==
  IF has_condition(i)
  THEN Processed([i EXCEPT !.cond = rw_ok_rewrite(cx, i.cond)],
                 check_and_emit(cx, st, i.cond, At("cond", <<>>),
                                NilLocation),
                 FALSE)
  ELSE Processed(i, st, FALSE)

process_kind(cx, st, i) ==
  CASE i.type = "OTHER" -> process_other(cx, st, i)
    [] i.type = "ASSIGN" -> process_assign(cx, st, i)
    [] i.type = "FUNCTION_CALL" -> process_function_call(cx, st, i)
    [] i.type = "RETURN" -> process_return(cx, st, i)
    [] i.type = "THROW" -> process_throw(cx, st, i)
    [] i.type = "ASSERT" -> process_assert(cx, st, i)
    [] i.type = "ASSUME" -> process_assume(cx, st, i)
    [] i.type = "DEAD" -> process_dead(cx, st, i)
    [] i.type = "END_FUNCTION" -> process_end_function(cx, st, i)
    [] OTHER -> Processed(i, st, FALSE)

\* the source locations of the patch buffer, filled in from the instruction
backfill(new_code, i) ==
  [k \in 1..Len(new_code) |->
     LET t == new_code[k] IN
     [t EXCEPT !.loc = IF t.loc.nil
                       THEN [t.loc EXCEPT !.nil = FALSE, !.line = i.loc.line]
                       ELSE t.loc,
               !.oid = i.oid]]

\* the body of the loop after the condition: c is the outcome of
\* process_condition
process_labels_and_kind(cx, c, i) ==
  [process_kind(cx, error_labels_step(cx, c.st, c.ins, cx.opts.error_labels),
                c.ins)
     EXCEPT !.st.new_code = backfill(@, i)]

\* the body of the loop up to the splice; cx0.en are the enable flags of
\* the run, which the pragmas of the instruction override
process_instruction(cx0, cache, target, i) ==
  LET cx == [cx0 EXCEPT !.en = apply_pragmas(cx0.en, i.loc.pragmas)]
      st0 == EmitterState(clear_at_instruction(cx, target, cache),
                          <<>>)
  IN process_labels_and_kind(cx, process_condition(cx, st0, i), i)

(***************************************************************************)
(* The instruction list: splicing and skip removal.                        *)
(***************************************************************************)
PositionOf(program, nid) ==
  CHOOSE k \in 1..Len(program) : program[k].nid = nid

\* instructiont::is_target: some branch of the program leads to the node
is_target(program, nid) ==
  \E k \in 1..Len(program) :
    program[k].ins.type = "GOTO" /\ program[k].ins.target = nid

\* goto_programt::insert_before_swap(target, instruction): a new node is
\* linked in after the target node and receives its instruction, and the
\* target node receives the new instruction; the identity of the target
\* node, which branches refer to, stays where it is
insert_before_swap(program, pos, instruction, fresh) ==
  SubSeq(program, 1, pos - 1)
  \o <<[nid |-> program[pos].nid, ins |-> instruction],
       [nid |-> fresh, ins |-> program[pos].ins]>>
  \o SubSeq(program, pos + 1, Len(program))

\* variant: the patch buffer is linked in after the current instruction
RECURSIVE splice_after(_, _, _, _)
splice_after(program, pos, new_code, fresh) ==
  IF new_code = <<>> THEN [prog |-> program, it |-> pos, fresh |-> fresh]
  ELSE splice_after(
         SubSeq(program, 1, pos)
         \o <<[nid |-> fresh, ins |-> Head(new_code)]>>
         \o SubSeq(program, pos + 1, Len(program)),
         pos + 1, Tail(new_code), fresh + 1)

\* while(!new_code.empty()) { insert_before_swap(it, front); pop; it++; }
RECURSIVE splice(_, _, _, _)
splice(program, pos, new_code, fresh) ==
  IF new_code = <<>> THEN [prog |-> program, it |-> pos, fresh |-> fresh]
  ELSE splice(insert_before_swap(program, pos, Head(new_code), fresh),
              pos + 1, Tail(new_code), fresh + 1)

\* remove_skip: the skip instructions without labels are unlinked and the
\* branches to them are led to the instruction that follows
is_skip(ins) == ins.type = "SKIP" /\ ins.labels = {}

RECURSIVE next_kept(_, _)
next_kept(program, k) ==
  IF k >= Len(program) \/ ~is_skip(program[k].ins) THEN k
  ELSE next_kept(program, k + 1)

remove_skip(program) ==
  LET retarget(ins) ==
        IF ins.type = "GOTO" /\ ins.target # 0
        THEN [ins EXCEPT !.target =
                program[next_kept(program,
                                  PositionOf(program, ins.target))].nid]
        ELSE ins
      kept == SelectSeq(program, LAMBDA n : ~is_skip(n.ins))
  IN [k \in 1..Len(kept) |-> [kept[k] EXCEPT !.ins = retarget(@)]]

(***************************************************************************)
(* The functions and the option sets offered to the pass.                  *)
(***************************************************************************)
\* longest function body offered to the pass, END_FUNCTION not counted
MaxProgLen == 2

AllChecks(b) == [f \in CheckFlags |-> b]
OnlyCheck(c) == [f \in CheckFlags |-> f = c]

Options(simplify, retain_trivial, assert_to_assume, kinds, error_labels) ==
  [simplify |-> simplify, retain_trivial |-> retain_trivial,
   assert_to_assume |-> assert_to_assume,
   assertions |-> kinds, built_in_assertions |-> kinds,
   assumptions |-> kinds, error_labels |-> error_labels]

\* an allocation of the registry: <<base address, size>>
AnAllocation == <<Sym("alloc_base", UInt(64)), Sym("alloc_size", UInt(64))>>

\* goto_checkt(ns, options) and the setting of one function: its mode, the
\* language standards, the result of the local bitvector analysis, whether
\* it is the entry point, and the collected allocations
Checker(en, opts, mode, flags, allocations) ==
  [opts |-> opts, option_checks |-> en, en |-> en, mode |-> mode,
   c_standard |-> "C99", cpp_standard |-> "CPP98",
   flags |-> flags, dirty |-> {"x"}, entry_point |-> TRUE,
   allocations |-> allocations]

Settings ==
  { [opts |-> Options(TRUE, FALSE, FALSE, TRUE, <<"ERROR">>),
     mode |-> "C", flags |-> {"unknown"}, allocations |-> <<>>],
    [opts |-> Options(FALSE, TRUE, TRUE, FALSE, <<>>),
     mode |-> "java", flags |-> {"null"}, allocations |-> <<>>],
    [opts |-> Options(TRUE, FALSE, TRUE, TRUE, <<"ERROR">>),
     mode |-> "C", flags |-> {"dynamic_heap", "uninitialized"},
     allocations |-> <<AnAllocation>>] }

EnableSets == {AllChecks(TRUE), AllChecks(FALSE), OnlyCheck("div_by_zero")}

Checkers ==
  {Checker(en, s.opts, s.mode, s.flags, s.allocations) :
     en \in EnableSets, s \in Settings}

\* the symbols of the functions
sx == Sym("x", SInt(16))
sy == Sym("y", SInt(16))
sz == Sym("z", SInt(16))
sw == Sym("w", SInt(16))
su == Sym("u", UInt(16))
sp == Sym("p", PtrT)
sa == Sym("a", ArrT(10))
sb == Sym("b", BoolT)
sc == Sym("c", BoolT)
sf == Sym("f", FloatT)

IntC(n) == Const(n, SInt(16))
Div(a, b) == Bin("div", SInt(16), a, b)
Deref(p) == Un("dereference", SInt(16), p)
Index(a, i) == Bin("index", SInt(16), a, i)
Gt(a, b) == Pred("gt", <<a, b>>)

Loc(line) == SourceLocation(line, FALSE, "", {})
Assign(lhs, rhs) ==
  Instr("ASSIGN", Code("assign", <<lhs, rhs>>), true_exprt, 0, {}, Loc(1))
Goto(cond, target) == Instr("GOTO", NoCode, cond, target, {}, Loc(1))

\* the instructions a body is made of; a branch names the position of its
\* target
Straight ==
  { Assign(sx, Div(sy, sw)),
    Assign(sz, Div(sy, sw)),
    Assign(sy, Deref(sp)),
    Assign(sx, Div(sy, Deref(sp))),
    Assign(sz, Index(sa, sx)),
    Assign(sz, Index(sp, sx)),
    Assign(Index(sa, sx), IntC(1)),
    Assign(Deref(sp), Div(sy, IntC(2))),
    Assign(sb, Pred("r_ok", <<sp, Const(4, SizeT)>>)),
    Assign(su, typecast_exprt(Bin("shl", SInt(16), sy, sx), UInt(16))),
    Assign(sf, Bin("plus", FloatT, sf, sf)),
    [Assign(sx, Div(sy, sw)) EXCEPT
       !.loc.pragmas = {"disable:div-by-zero-check"}],
    [Assign(sx, IntC(1)) EXCEPT !.labels = {"ERROR"}],
    Instr("ASSERT", NoCode, Gt(sx, IntC(0)), 0, {},
          SourceLocation(1, TRUE, "", {})),
    Instr("ASSERT", NoCode, Gt(Div(sy, sw), IntC(0)), 0, {}, Loc(1)),
    Instr("ASSUME", NoCode, and_exprt(sb, Gt(Div(sy, sw), IntC(0))), 0, {},
          Loc(1)),
    Instr("THROW", Code("expression",
                        <<Mk("side_effect", EmptyT, "", "throw", 0, <<sp>>)>>),
          true_exprt, 0, {}, Loc(1)),
    Instr("FUNCTION_CALL",
          Code("function_call",
               <<NoCode, Sym("m", CodeT(TRUE)),
                 Node("arguments", EmptyT, <<sp, Div(sy, sw)>>)>>),
          true_exprt, 0, {}, Loc(1)),
    Instr("RETURN", Code("return", <<Bin("plus", SInt(16), sy, sz)>>),
          true_exprt, 0, {}, Loc(1)),
    Instr("DEAD", Code("dead", <<sx>>), true_exprt, 0, {}, Loc(1)),
    Instr("OTHER",
          Code("expression",
               <<Node("if", SInt(16), <<sb, Div(sy, sw), sx>>)>>),
          true_exprt, 0, {}, Loc(1)),
    Instr("OTHER", Code("printf", <<Bin("mod", SInt(16), sy, sw)>>),
          true_exprt, 0, {}, Loc(1)) }

Branches(n) == {Goto(Gt(Div(sy, sw), IntC(0)), t) : t \in 1..(n + 1)}

\* the instructions the bodies of more than two instructions are made of
Core ==
  { Assign(sx, Div(sy, sw)),
    Assign(sz, Div(sy, sw)),
    Assign(sy, Deref(sp)),
    Assign(Index(sa, sx), IntC(1)),
    Assign(Deref(sp), Div(sy, IntC(2))),
    Instr("ASSERT", NoCode, Gt(Div(sy, sw), IntC(0)), 0, {}, Loc(1)) }

Pool(n) == (IF n <= 2 THEN Straight ELSE Core) \cup Branches(n)

EndFunction == Instr("END_FUNCTION", NoCode, true_exprt, 0, {}, Loc(1))

\* the bodies of n instructions followed by END_FUNCTION; node k holds
\* original instruction k
Bodies(n) ==
  {[k \in 1..(n + 1) |->
      [nid |-> k,
       ins |-> [(IF k = n + 1 THEN EndFunction ELSE b[k]) EXCEPT !.oid = k]]] :
     b \in [1..n -> Pool(n)]}

NoLast == [oid |-> 0]

\* the state in which goto_check is entered with the body
Entered(checker, body) ==
  /\ cfg = checker
  /\ prog = body
  /\ it = 1
  /\ assertions = {}
  /\ did_something = FALSE
  /\ pc = "loop"
  /\ nextNid = Len(body) + 1
  /\ run = 1
  /\ body1 = <<>>
  /\ last = NoLast
  \* the trace validator is not running
  /\ tlen = 0
  /\ tpos = 0
  /\ tstep = NoStep
  /\ tstatus = "idle"
  /\ terr = ""
  /\ twhere = ""
  \* the function is handed in directly, not by the whole-program entry point
  /\ funcs = <<>>
  /\ fidx = 0
  /\ scan = 0
  /\ wpc = "idle"

Init ==
  \E checker \in Checkers, n \in 1..MaxProgLen :
    \E body \in Bodies(n) : Entered(checker, body)

\* the end of an iteration: r is the outcome of process_instruction for
\* the instruction of node, s the list after the splice; the variant
\* steps to the position after the one the iteration started at
AdvanceByOne(node, target, r, s) ==
  IF r.st.thrown
  THEN /\ pc' = "aborted"
       /\ UNCHANGED <<prog, it, assertions, did_something, nextNid, last>>
  ELSE /\ prog' = s.prog
       /\ it' = it + 1
       /\ nextNid' = s.fresh
       /\ assertions' = r.st.assertions
       /\ did_something' =
            (did_something \/ r.skipped \/ r.st.new_code # <<>>)
       /\ last' = [oid |-> node.ins.oid, ins |-> node.ins,
                   before |-> assertions, target |-> target,
                   new_code |-> r.st.new_code]
       /\ pc' = "loop"

Advance(node, target, r, s) ==
  IF r.st.thrown
  THEN /\ pc' = "aborted"
       /\ UNCHANGED <<prog, it, assertions, did_something, nextNid, last>>
  ELSE /\ prog' = s.prog
       /\ it' = s.it + 1
       /\ nextNid' = s.fresh
       /\ assertions' = r.st.assertions
       /\ did_something' =
            (did_something \/ r.skipped \/ r.st.new_code # <<>>)
       /\ last' = [oid |-> node.ins.oid, ins |-> node.ins,
                   before |-> assertions, target |-> target,
                   new_code |-> r.st.new_code]
       /\ pc' = "loop"

SpliceAndAdvance(node, target, r) ==
  Advance(node, target, r,
          splice([prog EXCEPT ![it].ins = r.ins], it, r.st.new_code,
                 nextNid))

\* one iteration of the loop over the instructions
ProcessInstruction ==
  /\ pc = "loop"
  /\ it <= Len(prog)
  /\ SpliceAndAdvance(prog[it], is_target(prog, prog[it].nid),
                      process_instruction(cfg, assertions,
                                          is_target(prog, prog[it].nid),
                                          prog[it].ins))
  /\ cfg' = [cfg EXCEPT !.en =
               flags_after_instruction(
                 set_pragma_flags(flag_resett(cfg.en),
                                  prog[it].ins.loc.pragmas, 1))]
  /\ UNCHANGED <<run, body1>>
  /\ UNCHANGED tvars
  /\ UNCHANGED wvars

\* the end of the loop: if(did_something) remove_skip(goto_program)
FinishPass ==
  /\ pc = "loop"
  /\ it > Len(prog)
  /\ prog' = IF did_something THEN remove_skip(prog) ELSE prog
  /\ pc' = "done"
  /\ UNCHANGED <<cfg, it, assertions, did_something, nextNid, run, body1,
                 last>>
  /\ UNCHANGED tvars
  /\ UNCHANGED wvars

\* goto_check is called again on the body the first run produced
RunAgain ==
  /\ pc = "done"
  /\ run = 1
  /\ run' = 2
  /\ body1' = prog
  /\ it' = 1
  /\ assertions' = {}
  /\ did_something' = FALSE
  /\ pc' = "loop"
  /\ last' = NoLast
  /\ UNCHANGED <<cfg, prog, nextNid>>
  /\ UNCHANGED tvars
  /\ UNCHANGED wvars

Next == ProcessInstruction \/ FinishPass

Spec == Init /\ [][Next]_vars

NextTwice == ProcessInstruction \/ FinishPass \/ RunAgain

SpecTwice == Init /\ [][NextTwice]_vars

(***************************************************************************)
(* The expressions offered to the walker: Boolean combinations by if, and, *)
(* or and not of a flag and of a comparison that holds a division, also    *)
(* below an address-of.                                                    *)
(***************************************************************************)
\* nesting depth of the expressions offered to the walker
MaxWalkDepth == 2

If(c, t, f) == Node("if", t.type, <<c, t, f>>)
AddressOf(object) == Un("address_of", PtrT, object)
NotNull(pointer) == Pred("notequal", <<pointer, null_pointer_exprt>>)

DivPositive == Gt(Div(sy, sw), IntC(0))
WalkAtoms == {sb, DivPositive}

WalkGrow(S) ==
  UNION {
    { If(e, DivPositive, sb), If(sb, e, DivPositive),
      and_exprt(e, DivPositive), and_exprt(sb, e),
      or_exprt(e, DivPositive), Pred("or", <<sb, DivPositive, e>>),
      Pred("and", <<sb, e, DivPositive>>),
      not_exprt(e),
      NotNull(AddressOf(If(e, Index(sa, Div(sy, sw)), Index(sa, sx)))),
      NotNull(AddressOf(Index(sa, If(e, Div(sy, sw), sx)))),
      NotNull(AddressOf(If(and_exprt(e, Gt(Index(sa, Div(sy, sw)), IntC(0))),
                           Index(sa, sy), Index(sa, sx)))) } :
    e \in S }

RECURSIVE WalkLevel(_)
WalkLevel(n) ==
  IF n = 0 THEN WalkAtoms
  ELSE WalkLevel(n - 1) \cup WalkGrow(WalkLevel(n - 1))

WalkExprs == WalkLevel(MaxWalkDepth)

WalkCheckers ==
  { Checker(OnlyCheck("div_by_zero"),
            Options(TRUE, FALSE, FALSE, TRUE, <<>>), "C", {"unknown"}, <<>>),
    Checker(AllChecks(TRUE),
            Options(FALSE, TRUE, TRUE, TRUE, <<>>), "C", {"unknown"}, <<>>) }

\* the body: the expression as an expression statement, END_FUNCTION
WalkBody(e) ==
  <<[nid |-> 1,
     ins |-> [Instr("OTHER", Code("expression", <<e>>), true_exprt, 0, {},
                    Loc(1)) EXCEPT !.oid = 1]],
    [nid |-> 2, ins |-> [EndFunction EXCEPT !.oid = 2]]>>

InitWalk ==
  \E checker \in WalkCheckers, e \in WalkExprs :
    Entered(checker, WalkBody(e))

SpecWalk == InitWalk /\ [][Next]_vars

(***************************************************************************)
(* Properties of the instrumentation pass.                                 *)
(***************************************************************************)
Positions == 1..Len(prog)
\* the instructions the pass inserted as obligations
IsObligation(ins) == ins.gen /\ ins.type \in {"ASSERT", "ASSUME"}
\* the original instruction number T, where it is still in the body
IsOriginal(ins, T) == ~ins.gen /\ ins.oid = T
AllChecksOff == \A f \in CheckFlags : ~cfg.en[f]

\* what is compared of two bodies: the instructions in order, a branch
\* target by its position
Content(program) ==
  [k \in 1..Len(program) |->
     LET i == program[k].ins IN
     [type |-> i.type, code |-> i.code, cond |-> i.cond, labels |-> i.labels,
      loc |-> i.loc,
      target |-> IF i.target = 0 THEN 0 ELSE PositionOf(program, i.target)]]

(***************************************************************************)
(* C1  Idempotence: when the pass has run a second time on the body the    *)
(* first run produced, the body is identical to the output of the first    *)
(* run; the second run inserted no new obligation.                         *)
(***************************************************************************)
C1_SecondRunChangesNothing ==
  (pc = "done" /\ run = 2) => Content(prog) = Content(body1)

C3_SilentWhenAllChecksOff ==
  AllChecksOff =>
    \A k \in Positions :
      IsObligation(prog[k].ins) =>
        /\ prog[k].ins.loc.property_class = "error label"
        /\ IsFalse(prog[k].ins.cond)

(***************************************************************************)
(* C6  Locality of invalidation, as claimed: after the driver processed an *)
(* assignment whose left-hand side is the symbol x, the cache holds no     *)
(* obligation that mentions x or contains a dereference, and every         *)
(* obligation that was in the cache before the assignment, or was added    *)
(* while walking it, and mentions neither, is still in the cache.          *)
(***************************************************************************)
AssignedSymbol ==
  last.oid # 0 /\ last.ins.type = "ASSIGN"
  /\ last.ins.code.ops[1].id = "symbol"
Touches(a, x) == has_symbol(a, {x}) \/ has_subexpr(a, {"dereference"})
\* the guarded conditions the walk of the last instruction put in the cache
AddedByLast ==
  {prog[k].ins.cond : k \in {j \in Positions :
     prog[j].ins.gen /\ prog[j].ins.prop # <<>>
     /\ prog[j].ins.oid = last.oid}}

C6_InvalidationIsLocal ==
  AssignedSymbol =>
    LET x == last.ins.code.ops[1].identifier IN
    /\ \A a \in assertions : ~Touches(a, x)
    /\ \A a \in last.before \cup AddedByLast :
         ~Touches(a, x) => a \in assertions

(***************************************************************************)
(* C6 amended: the cache the assignment starts from is the cache after     *)
(* the clearing at the head of the iteration, which empties it when        *)
(* retain-trivial is set or the assignment is a branch target.  After the  *)
(* assignment to the symbol x the cache holds no obligation that mentions  *)
(* x or contains a dereference, and every obligation of that cache, or     *)
(* added while walking the assignment, that mentions neither is still in   *)
(* the cache.                                                              *)
(***************************************************************************)
C6_InvalidationIsLocalAfterClearing ==
  AssignedSymbol =>
    LET x == last.ins.code.ops[1].identifier
        start == IF cfg.opts.retain_trivial \/ last.target
                 THEN {} ELSE last.before
    IN
    /\ \A a \in assertions : ~Touches(a, x)
    /\ \A a \in start \cup AddedByLast : ~Touches(a, x) => a \in assertions
    /\ assertions \subseteq start \cup AddedByLast

\* an assignment to a symbol dropped an obligation and kept another
C6_Witness ==
  /\ AssignedSymbol
  /\ \E a \in last.before : a \in assertions
  /\ \E a \in last.before \cup AddedByLast : a \notin assertions

(***************************************************************************)
(* C7  Form of emitted obligations: every obligation the pass inserts is   *)
(* an assertion when assert-to-assume is false and an assumption when it   *)
(* is true; the condition of an error-label obligation is false; the       *)
(* condition of any other is the checked condition, simplified when        *)
(* simplification is enabled, alone when the guard is true and             *)
(* 'guard => condition' otherwise; a condition that is trivially true is   *)
(* emitted only with retain-trivial.                                       *)
(***************************************************************************)
C7_ObligationForm ==
  \A k \in Positions :
    LET i == prog[k].ins IN
    IsObligation(i) =>
      /\ i.type = IF cfg.opts.assert_to_assume THEN "ASSUME" ELSE "ASSERT"
      /\ IF i.prop = <<>>
         THEN i.cond = false_exprt /\ i.loc.property_class = "error label"
         ELSE LET p == i.prop[1]
                  checked == IF cfg.opts.simplify
                             THEN simplify_expr(p.asserted) ELSE p.asserted
              IN /\ i.cond = IF p.guard = TrueGuard THEN checked
                             ELSE Pred("implies",
                                       <<guard_as_expr(p.guard), checked>>)
                 /\ (IsTrue(checked) => cfg.opts.retain_trivial)
                 /\ i.loc.property_class = p.class

\* a guarded assumption and an unguarded one in the same body
C7_Witness ==
  /\ cfg.opts.assert_to_assume
  /\ \E k, j \in Positions :
       /\ IsObligation(prog[k].ins) /\ prog[k].ins.prop # <<>>
       /\ prog[k].ins.prop[1].guard # TrueGuard
       /\ prog[k].ins.cond.id = "implies"
       /\ IsObligation(prog[j].ins) /\ prog[j].ins.prop # <<>>
       /\ prog[j].ins.prop[1].guard = TrueGuard

(***************************************************************************)
(* The guard of a place of an expression by the rules of the walker: from  *)
(* the root down to the place, an if adds its condition for the true case  *)
(* and the negated condition for the false case, an and adds the operands  *)
(* before the one entered, an or their negations.  check_rec applies these *)
(* rules; if_any_mode and logic_any_mode tell whether the rule for if and  *)
(* the rule for and and or also apply where the walker is computing an     *)
(* address.                                                                *)
(***************************************************************************)
RECURSIVE AddPrior(_, _, _, _)
AddPrior(g, e, k, idx) ==
  IF k >= idx THEN g
  ELSE AddPrior(guard_add(g, IF e.id = "or" THEN boolean_negate(e.ops[k])
                             ELSE e.ops[k]),
                e, k + 1, idx)

\* the mode in which operand idx of e is visited, e visited in mode
ChildMode(e, idx, mode) ==
  IF mode = "value"
  THEN IF e.id = "address_of" THEN "address" ELSE "value"
  ELSE IF e.id = "dereference" THEN "value"
  ELSE IF e.id = "index" /\ idx = 2 THEN "value"
  ELSE "address"

RECURSIVE GuardAlong(_, _, _, _, _, _)
GuardAlong(e, path, mode, g, if_any_mode, logic_any_mode) ==
  IF path = <<>> THEN g
  ELSE
    LET idx == Head(path)
        g1 == IF e.id = "if" /\ (if_any_mode \/ mode = "value")
              THEN IF idx = 2 THEN guard_add(g, e.ops[1])
                   ELSE IF idx = 3 THEN guard_add(g, not_exprt(e.ops[1]))
                   ELSE g
              ELSE IF e.id \in {"and", "or"}
                      /\ (logic_any_mode \/ mode = "value")
              THEN AddPrior(g, e, 1, idx)
              ELSE g
    IN GuardAlong(e.ops[idx], Tail(path), ChildMode(e, idx, mode), g1,
                  if_any_mode, logic_any_mode)

RECURSIVE SubAt(_, _)
SubAt(e, path) ==
  IF path = <<>> THEN e ELSE SubAt(e.ops[Head(path)], Tail(path))

Conjuncts(g) == {g[k] : k \in 1..Len(g)}
\* the guard contains the condition c
GuardHas(g, c) ==
  IF c.id = "and" THEN \A k \in 1..Len(c.ops) : c.ops[k] \in Conjuncts(g)
  ELSE c \in Conjuncts(g)

\* the obligations emitted for the expression statement of the body, and
\* the expression they were emitted for
WalkedStatement == prog[Len(prog) - 1].ins
WalkRoot == WalkedStatement.code
WalkObligations ==
  {prog[k].ins.prop[1] : k \in {j \in Positions :
     IsObligation(prog[j].ins) /\ prog[j].ins.prop # <<>>}}
WalkDone == pc = "done" /\ WalkedStatement.type = "OTHER"

(***************************************************************************)
(* C4  Guard correctness for if-then-else: for every expression walked by  *)
(* check that contains if(c, t, f) at any position, also below an          *)
(* address-of, every obligation emitted for a sub-expression of t has a    *)
(* guard containing c, every obligation emitted for a sub-expression of f  *)
(* a guard containing not c, obligations emitted for c carry only the      *)
(* enclosing guard, and the guard is after the call of check_rec what it   *)
(* was before.                                                             *)
(***************************************************************************)
C4_IfGuards ==
  WalkDone =>
    /\ \A p \in WalkObligations :
         /\ \A n \in 1..Len(p.path) :
              LET anc == SubAt(WalkRoot, SubSeq(p.path, 1, n - 1)) IN
              anc.id = "if" =>
                /\ p.path[n] = 2 => GuardHas(p.guard, anc.ops[1])
                /\ p.path[n] = 3 => GuardHas(p.guard, not_exprt(anc.ops[1]))
         /\ p.guard = GuardAlong(WalkRoot, p.path, "value", TrueGuard,
                                 TRUE, FALSE)
    /\ \A g \in {TrueGuard, <<sc>>} :
         check_rec(cfg, WalkRoot, g, At("code", <<>>)).guard = g

(***************************************************************************)
(* C5  Short-circuit faithfulness: for an and (an or) with operands        *)
(* o1..on visited left to right, every obligation emitted while visiting   *)
(* oi has a guard that is the enclosing guard conjoined with o1..o(i-1)    *)
(* (with their negations), obligations for o1 carry only the enclosing     *)
(* guard, and after the logical operation the guard is the enclosing guard *)
(* again, so that siblings do not see these conjuncts.                     *)
(***************************************************************************)
C5_ShortCircuitGuards ==
  WalkDone =>
    /\ \A p \in WalkObligations :
         /\ \A n \in 1..Len(p.path) :
              LET anc == SubAt(WalkRoot, SubSeq(p.path, 1, n - 1)) IN
              anc.id \in {"and", "or"} =>
                \A k \in 1..(p.path[n] - 1) :
                  GuardHas(p.guard, IF anc.id = "or"
                                    THEN boolean_negate(anc.ops[k])
                                    ELSE anc.ops[k])
         /\ p.guard = GuardAlong(WalkRoot, p.path, "value", TrueGuard,
                                 FALSE, TRUE)
    /\ \A g \in {TrueGuard, <<sc>>} :
         check_rec(cfg, WalkRoot, g, At("code", <<>>)).guard = g

(***************************************************************************)
(* The structural grammar of assignment steps, as the specification states *)
(* it (section 4.7).                                                       *)
(***************************************************************************)
GValidSymbol(e) == e.id = "symbol" /\ e.identifier # ""

GChainKinds ==
  {"member", "index", "address_of", "typecast", "symbol",
   "byte_extract_little_endian"}

RECURSIVE GNestedSymbol(_)
GNestedSymbol(e) ==
  IF e.ops = <<>> THEN GValidSymbol(e)
  ELSE e.ops[1].id \in GChainKinds /\ GNestedSymbol(e.ops[1])

GLhs(e) ==
  CASE e.id = "symbol" -> GValidSymbol(e)
    [] e.id = "member" -> e.ops # <<>> /\ GNestedSymbol(e)
    [] e.id = "index" ->
         Len(e.ops) = 2 /\ GValidSymbol(e.ops[1]) /\ e.ops[2].id = "constant"
    [] e.id = "byte_extract_little_endian" ->
         GValidSymbol(e.ops[1]) /\ simplify_expr(e.ops[2]).id = "constant"
    [] OTHER -> FALSE

GStruct(e) ==
  /\ e.ops # <<>>
  /\ e.ops[1].id \in {"struct", "constant"}
  /\ \A i \in 2..Len(e.ops) : e.ops[i].id = "constant"

GRhs(e) ==
  CASE e.id = "symbol" -> GValidSymbol(e)
    [] e.id = "address_of" -> GNestedSymbol(e)
    [] e.id = "struct" -> GStruct(e)
    [] e.id = "constant" ->
         \/ e.value # ""
         \/ e.ops # <<>>
            /\ skip_typecast(e.ops[1]).id \in {"constant", "address_of", "plus"}
    [] e.id \in {"array", "array_list"} -> TRUE
    [] e.id = "byte_extract_little_endian" ->
         simplify_expr(e.ops[1]).id = "constant"
         /\ simplify_expr(e.ops[2]).id = "constant"
    [] OTHER -> FALSE

IsAssignStep(step) == step.type \in {"assignment", "decl"}

StepConforms(step) ==
  IsAssignStep(step) =>
    GLhs(skip_typecast(step.full_lhs)) /\ GRhs(skip_typecast(step.full_lhs_value))

\* a step has just been examined by check_step_assumptions
StepExamined == tstatus \in {"checked", "raised"}

C9_LhsAcceptedIffGrammar ==
  (StepExamined /\ IsAssignStep(tstep)) =>
    ((twhere # "lhs") <=> GLhs(skip_typecast(tstep.full_lhs)))

(***************************************************************************)
(* C10 - Accepted right-hand-side kinds: after removing outer typecasts    *)
(* the RHS passes the high-level kind test iff its kind is struct, array,  *)
(* array-list, constant, address-of, symbol or byte-extract; a struct is   *)
(* accepted only if it is non-empty, its first operand is a struct or a    *)
(* constant and the remaining operands are constants; array and            *)
(* array-list are accepted without further check.                          *)
(***************************************************************************)
RhsKinds ==
  {"struct", "array", "array_list", "constant", "address_of", "symbol",
   "byte_extract_little_endian"}

\* the step's right-hand side has been examined (its left-hand side passed)
RhsExamined == StepExamined /\ IsAssignStep(tstep) /\ twhere # "lhs"

UnitTestRhsTrue ==
  {"symbol", "address_of", "struct", "array", "array_list", "constant"}

UnitTestRhsFalse == {"member", "index", "byte_extract_little_endian"}

C11_UnitTestRhsTable ==
  RhsExamined =>
    /\ tstep.full_lhs_value.id \in UnitTestRhsTrue
         => valid_rhs_expr_high_level(tstep.full_lhs_value)
    /\ tstep.full_lhs_value.id \in UnitTestRhsFalse
         => ~valid_rhs_expr_high_level(tstep.full_lhs_value)

(***************************************************************************)
(* C12 - Error order and side: steps are checked in trace order and the    *)
(* LHS before the RHS; the first violation raises one error and nothing    *)
(* is examined after it; the message names "LHS" when the offending        *)
(* expression is the left-hand side and "RHS" when it is the right-hand    *)
(* side, for every RHS shape, byte-extract included; a step with both      *)
(* sides malformed reports "LHS".                                          *)
(***************************************************************************)
LhsMalformed(step) == check_lhs_assumptions(skip_typecast(step.full_lhs)) # ""

RhsMalformed(step) ==
  check_rhs_assumptions(skip_typecast(step.full_lhs_value)) # ""

\* the side of the step on which the raised error was found
ErrorOrder ==
  (StepExamined /\ IsAssignStep(tstep)) =>
    /\ twhere = "lhs" <=> LhsMalformed(tstep)
    /\ twhere = "rhs" <=> (~LhsMalformed(tstep) /\ RhsMalformed(tstep))
    /\ tstatus = "raised" <=> twhere # ""

ErrorSide ==
  /\ twhere = "lhs" => terr = "LHS"
  /\ twhere = "rhs" => terr = "RHS"
  /\ twhere = "" => terr = ""

C12_ErrorOrderAndSide ==
  /\ [](ErrorOrder /\ ErrorSide)
  /\ [][tstatus = "raised" => UNCHANGED vars]_vars
  /\ [][tpos' # tpos => (tstatus = "checked" /\ tpos' = tpos + 1)]_vars

\* the same statement without the side named for a byte-extract RHS
C12_Probe_NoByteExtractRhs ==
  /\ [](ErrorOrder)
  /\ [](skip_typecast(tstep.full_lhs_value).id # "byte_extract_little_endian"
          => ErrorSide)

(***************************************************************************)
(* The pass over one statement that dereferences p, for every flag set    *)
(* the local bitvector analysis can report for p, in C and in Java mode,   *)
(* with and without registered allocations.                               *)
(***************************************************************************)
FlavorFlags ==
  {"unknown", "null", "uninitialized", "dynamic_heap", "dynamic_local",
   "static_lifetime", "integer_address"}

AnotherAllocation == <<Sym("alloc_base2", UInt(64)), Sym("alloc_size2", UInt(64))>>

FlavorAllocations == {<<>>, <<AnAllocation>>, <<AnAllocation, AnotherAllocation>>}

FlavorCheckers ==
  {Checker(en, Options(simplify, FALSE, FALSE, TRUE, <<>>), mode, flags, al) :
     en \in {OnlyCheck("pointer"), AllChecks(FALSE)},
     simplify \in BOOLEAN, mode \in {"C", "java"},
     flags \in SUBSET FlavorFlags, al \in FlavorAllocations}

FlavorStatements == {Assign(sy, Deref(sp)), Assign(sx, Div(sy, Deref(sp)))}

FlavorBody(i) ==
  <<[nid |-> 1, ins |-> [i EXCEPT !.oid = 1]],
    [nid |-> 2, ins |-> [EndFunction EXCEPT !.oid = 2]]>>

InitFlavor ==
  \E checker \in FlavorCheckers, i \in FlavorStatements :
    Entered(checker, FlavorBody(i))

SpecFlavor == InitFlavor /\ [][Next]_vars

(***************************************************************************)
(* C13 - Pointer-validity obligations by flavor: for a dereference of p    *)
(* with the pointer check enabled, outside Java mode, the obligations      *)
(* emitted are exactly the rows of the table whose trigger holds: null     *)
(* (unknown or null), invalid (unknown), uninitialized (uninitialized),    *)
(* deallocated and dynamic bounds (unknown or dynamic_heap), dead object   *)
(* (unknown or dynamic_local), object bounds (unknown, dynamic_local or    *)
(* static_lifetime), integer address (unknown or integer_address); each    *)
(* carries the clause "in some registered allocation" as an alternative,   *)
(* except the invalid row; an unknown pointer yields seven obligations.    *)
(* In Java mode the only obligation is "p is not null", emitted iff the    *)
(* flavor is unknown or null.                                              *)
(***************************************************************************)
\* row: description, flags that trigger it, predicate it is about, and how
\* the allocation clause enters (or: alternative, none, implies: conclusion)
FlavorRow(description, triggers, about, form) ==
  [description |-> description, triggers |-> triggers, about |-> about,
   form |-> form]

FlavorTable ==
  { FlavorRow("pointer NULL", {"unknown", "null"}, "null_pointer", "or"),
    FlavorRow("pointer invalid", {"unknown"}, "is_invalid_pointer", "none"),
    FlavorRow("pointer uninitialized", {"uninitialized"},
              "is_invalid_pointer", "or"),
    FlavorRow("deallocated dynamic object", {"unknown", "dynamic_heap"},
              "deallocated", "or"),
    FlavorRow("dead object", {"unknown", "dynamic_local"}, "dead_object",
              "or"),
    FlavorRow("pointer outside dynamic object bounds",
              {"unknown", "dynamic_heap"}, "malloc_object", "or"),
    FlavorRow("pointer outside object bounds",
              {"unknown", "dynamic_local", "static_lifetime"},
              "dynamic_object", "or"),
    FlavorRow("invalid integer address", {"unknown", "integer_address"},
              "integer_address", "implies") }

\* base <= p and p + s <= base + size, for some registered allocation
InSomeAllocation(p, s) ==
  LET inside(a) ==
        Pred("and",
             <<Pred("le", <<a[1], Un("typecast", a[1].type, p)>>),
               Pred("le", <<Bin("plus", a[1].type,
                                Un("typecast", a[1].type, p), s),
                            Bin("plus", a[1].type, a[1], a[2])>>)>>)
      n == Len(cfg.allocations)
  IN IF n = 0 THEN false_exprt
     ELSE IF n = 1 THEN inside(cfg.allocations[1])
     ELSE Pred("or", [k \in 1..n |-> inside(cfg.allocations[k])])

AllocationSymbols ==
  {cfg.allocations[k][j].identifier : k \in 1..Len(cfg.allocations), j \in 1..2}

\* the statement with the dereference of p has been processed
DerefProcessed ==
  /\ last.oid = 1
  /\ has_subexpr(last.ins.code, {"dereference"})
  /\ cfg.en.pointer

\* the places of the obligations emitted for it
DerefObligations ==
  {k \in Positions : IsObligation(prog[k].ins) /\ prog[k].ins.oid = 1}

RowEmitted(row, k) ==
  LET p == prog[k].ins.prop[1]
      in_alloc == InSomeAllocation(sp, Const(2, SizeT))
  IN /\ p.comment = "dereference failure: " \o row.description
     /\ p.class = "pointer dereference"
     /\ has_subexpr(p.asserted, {row.about})
     /\ CASE row.form = "or" ->
               /\ p.asserted.id = "or"
               /\ p.asserted.ops[1] = in_alloc
               /\ ~has_symbol(p.asserted.ops[2], AllocationSymbols)
          [] row.form = "implies" ->
               p.asserted.id = "implies" /\ p.asserted.ops[2] = in_alloc
               /\ ~has_symbol(p.asserted.ops[1], AllocationSymbols)
          [] OTHER -> ~has_symbol(p.asserted, AllocationSymbols)

C13_FlavorTable ==
  DerefProcessed =>
    IF cfg.mode = "java"
    THEN /\ DerefObligations # {} <=> cfg.flags \cap {"unknown", "null"} # {}
         /\ Cardinality(DerefObligations) <= 1
         /\ \A k \in DerefObligations :
              prog[k].ins.prop[1].asserted
                = Pred("notequal", <<sp, null_pointer_exprt>>)
    ELSE /\ \A row \in FlavorTable :
              (row.triggers \cap cfg.flags # {})
                <=> \E k \in DerefObligations : RowEmitted(row, k)
         /\ \A k \in DerefObligations :
              \E row \in FlavorTable : RowEmitted(row, k)
         /\ Cardinality(DerefObligations)
              = Cardinality({row \in FlavorTable :
                               row.triggers \cap cfg.flags # {}})
         /\ cfg.flags = {"unknown"} => Cardinality(DerefObligations) = 7

\* an unknown pointer with two registered allocations: seven obligations
C13_Witness ==
  /\ DerefProcessed
  /\ cfg.mode = "C"
  /\ cfg.flags = {"unknown"}
  /\ Len(cfg.allocations) = 2
  /\ Cardinality(DerefObligations) = 7

\* Java mode: the single obligation for a pointer that may be null
C13_WitnessJava ==
  /\ DerefProcessed
  /\ cfg.mode = "java"
  /\ cfg.flags = {"null", "dynamic_heap"}
  /\ Cardinality(DerefObligations) = 1

(***************************************************************************)
(* C13 amended: as above, except that a row whose condition equals the     *)
(* condition of a row emitted before it is not emitted again.  This is the *)
(* uninitialized row of a pointer that is also unknown, when no allocation *)
(* is registered and simplification is on: its condition is then the       *)
(* condition of the invalid row, and the cache drops it.                    *)
(***************************************************************************)
Triggered(row) == row.triggers \cap cfg.flags # {}

SameAsInvalidRow(row) ==
  /\ row.description = "pointer uninitialized"
  /\ "unknown" \in cfg.flags
  /\ cfg.allocations = <<>>
  /\ cfg.opts.simplify

C13_FlavorTableDistinct ==
  DerefProcessed =>
    IF cfg.mode = "java"
    THEN /\ DerefObligations # {} <=> cfg.flags \cap {"unknown", "null"} # {}
         /\ Cardinality(DerefObligations) <= 1
         /\ \A k \in DerefObligations :
              prog[k].ins.prop[1].asserted
                = Pred("notequal", <<sp, null_pointer_exprt>>)
    ELSE /\ \A row \in FlavorTable :
              (Triggered(row) /\ ~SameAsInvalidRow(row))
                <=> \E k \in DerefObligations : RowEmitted(row, k)
         /\ \A k \in DerefObligations :
              \E row \in FlavorTable : RowEmitted(row, k)
         /\ Cardinality(DerefObligations)
              = Cardinality({row \in FlavorTable :
                               Triggered(row) /\ ~SameAsInvalidRow(row)})
         /\ cfg.flags = {"unknown"} => Cardinality(DerefObligations) = 7
         /\ \A row \in FlavorTable :
              (Triggered(row) /\ SameAsInvalidRow(row)) =>
                \E k \in DerefObligations :
                  prog[k].ins.cond
                    = simplify_expr(
                        or_exprt(false_exprt,
                                 not_exprt(Pred("is_invalid_pointer", <<sp>>))))

\* the uninitialized row dropped as a duplicate of the invalid row
C13_WitnessDuplicateRow ==
  /\ DerefProcessed
  /\ cfg.mode = "C"
  /\ cfg.flags = {"unknown", "uninitialized"}
  /\ cfg.allocations = <<>>
  /\ cfg.opts.simplify
  /\ Cardinality(DerefObligations) = 7

(***************************************************************************)
(* The pass over one statement with one array access a[i]: arrays of       *)
(* constant and of infinite size, indices of every kind the lower-bound    *)
(* test distinguishes, with and without the attribute bounds_check=false.  *)
(***************************************************************************)
BoundsArrays == {sa, Sym("t", ArrT(4)), Sym("v", ArrT(-2))}

BoundsIndices ==
  { sx, su, typecast_exprt(su, SInt(16)), typecast_exprt(sz, SInt(32)),
    IntC(0), IntC(3), IntC(-1), IntC(12), Const(3, UInt(16)),
    Bin("plus", SInt(16), sx, IntC(1)) }

BoundsAccesses ==
  {Index(a, i) : a \in BoundsArrays, i \in BoundsIndices}
  \cup {[Index(a, i) EXCEPT !.value = "no_bounds_check"] :
          a \in BoundsArrays, i \in {sx, IntC(12)}}

BoundsStatements ==
  {Assign(sz, e) : e \in BoundsAccesses}
  \cup {Assign(e, IntC(1)) : e \in BoundsAccesses}
  \cup {Instr("OTHER", Code("expression", <<If(sb, e, sx)>>), true_exprt, 0,
              {}, Loc(1)) : e \in BoundsAccesses}

BoundsCheckers ==
  {Checker(en, Options(simplify, retain, FALSE, TRUE, <<>>), "C",
           {"unknown"}, <<>>) :
     en \in {OnlyCheck("bounds"), AllChecks(FALSE)},
     simplify \in BOOLEAN, retain \in BOOLEAN}

InitBounds ==
  \E checker \in BoundsCheckers, i \in BoundsStatements :
    Entered(checker, FlavorBody(i))

SpecBounds == InitBounds /\ [][Next]_vars

(***************************************************************************)
(* C14 - Array bounds for a[i] on a static array of known non-zero size N  *)
(* with the bounds check enabled: a lower-bound obligation is emitted iff  *)
(* the index type is not unsigned, the index is not a direct typecast from *)
(* an unsigned value and the index is not a constant >= 0; the upper-bound *)
(* obligation is i < N; both have class 'array bounds'; for a constant     *)
(* in-range index and retain-trivial off nothing is inserted; an access    *)
(* with the attribute bounds_check=false yields nothing.                   *)
(***************************************************************************)
\* the access of the statement processed
TheAccess ==
  IF last.ins.type = "ASSIGN"
  THEN IF last.ins.code.ops[1].id = "index"
       THEN last.ins.code.ops[1] ELSE last.ins.code.ops[2]
  ELSE last.ins.code.ops[1].ops[2]

TheIndex == TheAccess.ops[2]
TheSize == TheAccess.ops[1].type.w

BoundsProcessed ==
  /\ last.oid = 1
  /\ last.ins.type \in {"ASSIGN", "OTHER"}
  /\ TheAccess.id = "index"
  /\ TheAccess.ops[1].type.id = "array"
  /\ TheSize > 0
  /\ cfg.en.bounds

BoundsObligations ==
  {k \in Positions : IsObligation(prog[k].ins) /\ prog[k].ins.oid = 1}

\* the condition of the obligation at k, without the guard of the walk
Unguarded(k) ==
  IF prog[k].ins.prop[1].guard = TrueGuard THEN prog[k].ins.cond
  ELSE prog[k].ins.cond.ops[2]

IsLowerBound(k) ==
  /\ prog[k].ins.prop[1].asserted.id = "ge"
  /\ prog[k].ins.prop[1].asserted.ops[2] = Const(0, OffsetT)

IsUpperBound(k) == prog[k].ins.prop[1].asserted.id = "implies"

LowerBoundExpected ==
  /\ TheIndex.type.id # "unsignedbv"
  /\ ~(TheIndex.id = "typecast" /\ TheIndex.ops[1].type.id = "unsignedbv")
  /\ ~(IsConst(TheIndex) /\ TheIndex.num >= 0)

\* i < N, N converted to the type of i
IndexBelowSize ==
  Pred("lt", <<TheIndex, Un("typecast", TheIndex.type, Const(TheSize, SizeT))>>)

ConstantInRange ==
  IsConst(TheIndex) /\ TheIndex.num >= 0 /\ TheIndex.num < TheSize

BoundsCommon ==
  /\ LowerBoundExpected <=> \E k \in BoundsObligations : IsLowerBound(k)
  /\ \A k \in BoundsObligations :
       /\ prog[k].ins.loc.property_class = "array bounds"
       /\ IsLowerBound(k) \/ IsUpperBound(k)
  /\ \A k, j \in BoundsObligations :
       (IsLowerBound(k) <=> IsLowerBound(j)) => k = j

C14_ArrayBounds ==
  BoundsProcessed =>
    IF TheAccess.value = "no_bounds_check" THEN BoundsObligations = {}
    ELSE /\ BoundsCommon
         /\ \A k \in BoundsObligations :
              IsUpperBound(k) =>
                simplify_expr(Unguarded(k)) = simplify_expr(IndexBelowSize)
         /\ (\E k \in BoundsObligations : IsUpperBound(k))
              \/ (~cfg.opts.retain_trivial /\ IsConst(TheIndex))
         /\ (ConstantInRange /\ ~cfg.opts.retain_trivial)
              => BoundsObligations = {}

(***************************************************************************)
(* C14 amended: the upper-bound obligation is `true => i < N`, emitted as  *)
(* i < N when simplification is on; it is dropped exactly when             *)
(* simplification is on, retain-trivial is off and i is a constant below   *)
(* N.  Nothing is inserted for a constant in-range index when              *)
(* retain-trivial is off and simplification is on.                         *)
(***************************************************************************)
UpperBoundDropped ==
  /\ cfg.opts.simplify
  /\ ~cfg.opts.retain_trivial
  /\ IsConst(TheIndex) /\ TheIndex.num < TheSize

C14_ArrayBoundsSimplified ==
  BoundsProcessed =>
    IF TheAccess.value = "no_bounds_check" THEN BoundsObligations = {}
    ELSE /\ BoundsCommon
         /\ \A k \in BoundsObligations :
              IsUpperBound(k) =>
                Unguarded(k)
                  = IF cfg.opts.simplify THEN simplify_expr(IndexBelowSize)
                    ELSE Pred("implies", <<true_exprt, IndexBelowSize>>)
         /\ (\E k \in BoundsObligations : IsUpperBound(k))
              <=> ~UpperBoundDropped
         /\ (ConstantInRange /\ ~cfg.opts.retain_trivial /\ cfg.opts.simplify)
              => BoundsObligations = {}

\* a[x] with x signed, under a guard: both bounds are emitted
C14_Witness ==
  /\ BoundsProcessed
  /\ TheIndex = sx
  /\ TheAccess.value # "no_bounds_check"
  /\ cfg.opts.simplify
  /\ Cardinality(BoundsObligations) = 2
  /\ \E k \in BoundsObligations :
       IsUpperBound(k) /\ prog[k].ins.prop[1].guard # TrueGuard

\* a[3] with retain-trivial off and simplification on: nothing inserted
C14_WitnessLiteral ==
  /\ BoundsProcessed
  /\ TheIndex = IntC(3)
  /\ TheSize = 10
  /\ ~cfg.opts.retain_trivial /\ cfg.opts.simplify
  /\ BoundsObligations = {}

(***************************************************************************)
(* goto_check(ns, options, goto_functions): collect_allocations scans      *)
(* every instruction of every function, then goto_checkt::goto_check runs  *)
(* on each function in turn.  An exception leaves the entry point.         *)
(***************************************************************************)
MaxFunctions == 2

allocated_memory == "__CPROVER_allocated_memory"

\* what collect_allocations does with one instruction: it goes on to the
\* next (continue), throws, or appends the entry; types_equal is the
\* condition of the assert before the push_back.  The variant does not test
\* the types of the arguments.
collect_allocations_untyped(instruction) ==
  LET call == instruction.code
      args == call.ops[3].ops
  IN
  IF instruction.type # "FUNCTION_CALL"
  THEN [kind |-> "continue"]
  ELSE IF call.ops[2].id # "symbol"
          \/ call.ops[2].identifier # allocated_memory
  THEN [kind |-> "continue"]
  ELSE IF Len(args) # 2
  THEN [kind |-> "throw"]
  ELSE [kind |-> "push", entry |-> <<args[1], args[2]>>,
        types_equal |-> args[1].type = args[2].type]

collect_allocations_instruction(instruction) ==
  LET call == instruction.code
      args == call.ops[3].ops
  IN
  IF instruction.type # "FUNCTION_CALL"
  THEN [kind |-> "continue"]
  ELSE IF call.ops[2].id # "symbol"
          \/ call.ops[2].identifier # allocated_memory
  THEN [kind |-> "continue"]
  ELSE IF Len(args) # 2
          \/ args[1].type.id # "unsignedbv"
          \/ args[2].type.id # "unsignedbv"
  THEN [kind |-> "throw"]
  ELSE [kind |-> "push", entry |-> <<args[1], args[2]>>,
        types_equal |-> args[1].type = args[2].type]

Call(function, args) ==
  Instr("FUNCTION_CALL",
        Code("function_call",
             <<NoCode, Sym(function, CodeT(FALSE)),
               Node("arguments", EmptyT, args)>>),
        true_exprt, 0, {}, Loc(1))

GoodAllocation == Call(allocated_memory, AnAllocation)
GoodAllocation2 == Call(allocated_memory, AnotherAllocation)

ProgramStatements ==
  { GoodAllocation,
    Call(allocated_memory, <<AnAllocation[1]>>),
    Call(allocated_memory, <<Sym("alloc_base", SInt(64)), AnAllocation[2]>>),
    Call(allocated_memory, <<AnAllocation[1], Sym("alloc_size", UInt(32))>>),
    Call("f", <<sy, sz, sw>>),
    Assign(sy, Deref(sp)),
    Assign(sx, Div(sy, sw)) }

\* a body: the statements followed by END_FUNCTION
BodyOf(stmts) ==
  [k \in 1..(Len(stmts) + 1) |->
     [nid |-> k,
      ins |-> [(IF k = Len(stmts) + 1 THEN EndFunction ELSE stmts[k])
                 EXCEPT !.oid = k]]]

ProgramBodies ==
  {BodyOf(<<i>>) : i \in ProgramStatements}
  \cup { BodyOf(<<GoodAllocation, Assign(sy, Deref(sp))>>),
         BodyOf(<<Assign(sy, Deref(sp)),
                  Call(allocated_memory, <<AnAllocation[1]>>)>>),
         BodyOf(<<GoodAllocation2, GoodAllocation>>) }

ProgramCheckers ==
  {Checker(en, Options(TRUE, FALSE, FALSE, TRUE, <<>>), "C", {"unknown"},
           <<>>) :
     en \in {OnlyCheck("pointer"), OnlyCheck("bounds"),
             OnlyCheck("div_by_zero"), AllChecks(FALSE)}}

Functions(n) ==
  {[k \in 1..n |-> [orig |-> b[k], body |-> b[k]]] :
     b \in [1..n -> ProgramBodies]}

InitProgram ==
  /\ \E checker \in ProgramCheckers : cfg = checker
  /\ \E n \in 1..MaxFunctions : funcs \in Functions(n)
  /\ fidx = 1
  /\ scan = 1
  /\ wpc = "collect"
  \* no function has been entered
  /\ prog = <<>>
  /\ it = 0
  /\ assertions = {}
  /\ did_something = FALSE
  /\ pc = "idle"
  /\ nextNid = 0
  /\ run = 0
  /\ body1 = <<>>
  /\ last = NoLast
  \* the trace validator is not running
  /\ tlen = 0
  /\ tpos = 0
  /\ tstep = NoStep
  /\ tstatus = "idle"
  /\ terr = ""
  /\ twhere = ""

\* collect_allocations returns at once when neither check needs the registry
CollectNothing ==
  /\ wpc = "collect"
  /\ ~cfg.en.pointer /\ ~cfg.en.bounds
  /\ wpc' = "functions"
  /\ fidx' = 1
  /\ UNCHANGED <<funcs, scan>>
  /\ UNCHANGED gvars
  /\ UNCHANGED tvars

\* the scan moves to the next instruction, or to the next function
ScanNext ==
  IF scan < Len(funcs[fidx].body)
  THEN scan' = scan + 1 /\ fidx' = fidx
  ELSE scan' = 1 /\ fidx' = fidx + 1

\* one iteration of the loops of collect_allocations; a failing assert ends
\* the program where asserts are compiled in and is skipped where not
CollectInstruction ==
  /\ wpc = "collect"
  /\ cfg.en.pointer \/ cfg.en.bounds
  /\ fidx <= Len(funcs)
  /\ LET r == collect_allocations_instruction(funcs[fidx].body[scan].ins) IN
     \/ /\ r.kind = "continue"
        /\ ScanNext
        /\ UNCHANGED <<cfg, wpc>>
     \/ /\ r.kind = "throw"
        /\ wpc' = "aborted"
        /\ UNCHANGED <<cfg, fidx, scan>>
     \/ /\ r.kind = "push"
        /\ cfg' = [cfg EXCEPT !.allocations = Append(@, r.entry)]
        /\ ScanNext
        /\ UNCHANGED wpc
     \/ /\ r.kind = "push" /\ ~r.types_equal
        /\ wpc' = "aborted"
        /\ UNCHANGED <<cfg, fidx, scan>>
  /\ UNCHANGED funcs
  /\ UNCHANGED <<prog, it, assertions, did_something, pc, nextNid, run,
                 body1, last>>
  /\ UNCHANGED tvars

\* the scan is over: collect_allocations returns
CollectReturn ==
  /\ wpc = "collect"
  /\ cfg.en.pointer \/ cfg.en.bounds
  /\ fidx > Len(funcs)
  /\ wpc' = "functions"
  /\ fidx' = 1
  /\ UNCHANGED <<funcs, scan>>
  /\ UNCHANGED gvars
  /\ UNCHANGED tvars

\* Forall_goto_functions: goto_check is entered with the next function
CallGotoCheck ==
  /\ wpc = "functions"
  /\ fidx <= Len(funcs)
  /\ wpc' = "in_function"
  /\ prog' = funcs[fidx].body
  /\ it' = 1
  /\ assertions' = {}
  /\ did_something' = FALSE
  /\ pc' = "loop"
  /\ nextNid' = Len(funcs[fidx].body) + 1
  /\ run' = 1
  /\ last' = NoLast
  /\ UNCHANGED <<cfg, body1>>
  /\ UNCHANGED <<funcs, fidx, scan>>
  /\ UNCHANGED tvars

\* goto_check returns: the function keeps the instrumented body
ReturnFromGotoCheck ==
  /\ wpc = "in_function"
  /\ pc = "done"
  /\ funcs' = [funcs EXCEPT ![fidx].body = prog]
  /\ fidx' = fidx + 1
  /\ wpc' = "functions"
  /\ pc' = "idle"
  /\ UNCHANGED scan
  /\ UNCHANGED <<cfg, prog, it, assertions, did_something, nextNid, run,
                 body1, last>>
  /\ UNCHANGED tvars

\* the loop over the functions is over
ProgramDone ==
  /\ wpc = "functions"
  /\ fidx > Len(funcs)
  /\ wpc' = "done"
  /\ UNCHANGED <<funcs, fidx, scan>>
  /\ UNCHANGED gvars
  /\ UNCHANGED tvars

NextProgram ==
  \/ CollectNothing
  \/ CollectInstruction
  \/ CollectReturn
  \/ CallGotoCheck
  \/ ProcessInstruction
  \/ FinishPass
  \/ ReturnFromGotoCheck
  \/ ProgramDone

SpecProgram == InitProgram /\ [][NextProgram]_vars

(***************************************************************************)
(* C15 - Allocation collection: the whole-program pass scans all functions *)
(* once before it instruments any; every call of allocated_memory with two *)
(* unsigned bit-vector arguments of identical width appends exactly one    *)
(* (address, size) entry to the registry; every call of it that does not   *)
(* have exactly two unsigned bit-vector arguments aborts the pass with a   *)
(* fatal error, whatever the options, and no function is instrumented.     *)
(***************************************************************************)
IsAllocatedMemoryCall(ins) ==
  /\ ins.type = "FUNCTION_CALL"
  /\ ins.code.ops[2].id = "symbol"
  /\ ins.code.ops[2].identifier = allocated_memory

TwoUnsigned(ins) ==
  /\ Len(ins.code.ops[3].ops) = 2
  /\ \A k \in 1..2 : ins.code.ops[3].ops[k].type.id = "unsignedbv"

\* the instructions of the program as handed in, function after function
RECURSIVE OriginalInstructions(_)
OriginalInstructions(k) ==
  IF k > Len(funcs) THEN <<>>
  ELSE [j \in 1..Len(funcs[k].orig) |-> funcs[k].orig[j].ins]
       \o OriginalInstructions(k + 1)

AllocatedMemoryCalls ==
  SelectSeq(OriginalInstructions(1), IsAllocatedMemoryCall)

MalformedCall ==
  \E k \in 1..Len(AllocatedMemoryCalls) : ~TwoUnsigned(AllocatedMemoryCalls[k])

ExpectedRegistry ==
  [k \in 1..Len(AllocatedMemoryCalls) |->
     <<AllocatedMemoryCalls[k].code.ops[3].ops[1],
       AllocatedMemoryCalls[k].code.ops[3].ops[2]>>]

NothingInstrumented ==
  /\ \A k \in 1..Len(funcs) : funcs[k].body = funcs[k].orig
  /\ pc = "idle"

ScanIsOver == wpc \in {"functions", "in_function", "done"}

WholeProgram == wpc # "idle"

ScanBeforeInstrumenting ==
  wpc = "collect" => (NothingInstrumented /\ fidx <= Len(funcs) + 1)

RegistryNeeded == cfg.en.pointer \/ cfg.en.bounds

C15_WitnessAborted ==
  /\ wpc = "aborted"
  /\ fidx = 2
  /\ MalformedCall
  /\ NothingInstrumented

\* a malformed call went undetected and a function was instrumented
C15_WitnessUndetected ==
  /\ wpc = "done"
  /\ MalformedCall
  /\ \E k \in 1..Len(funcs) : funcs[k].body # funcs[k].orig

(***************************************************************************)
(* The pass over bodies whose instructions carry labels, with zero, one    *)
(* and two configured error labels.                                        *)
(***************************************************************************)
LabelSets == {{}, {"ERROR"}, {"FAIL", "ERROR"}, {"L1"}}

LabelledStatements ==
  {[i EXCEPT !.labels = l] :
     i \in { Assign(sx, Div(sy, sw)),
             Instr("ASSERT", NoCode, Gt(sx, IntC(0)), 0, {},
                   SourceLocation(1, TRUE, "", {})),
             Instr("ASSUME", NoCode, Gt(Div(sy, sw), IntC(0)), 0, {},
                   Loc(1)) },
     l \in LabelSets}

LabelledPool(n) == LabelledStatements \cup {Goto(sb, t) : t \in 1..n}

LabelledBodies(n) == {BodyOf(b) : b \in [1..n -> LabelledPool(n)]}

LabelCheckers ==
  {Checker(en, Options(TRUE, FALSE, a2a, kinds, labels), "C", {"unknown"},
           <<>>) :
     en \in {AllChecks(FALSE), OnlyCheck("div_by_zero")},
     a2a \in BOOLEAN, kinds \in BOOLEAN,
     labels \in {<<>>, <<"ERROR">>, <<"ERROR", "FAIL">>}}

InitLabels ==
  \E checker \in LabelCheckers, n \in 1..MaxProgLen :
    \E body \in LabelledBodies(n) : Entered(checker, body)

SpecLabels == InitLabels /\ [][Next]_vars

(***************************************************************************)
(* C16 - Error labels: for every instruction and every configured error    *)
(* label among its labels the pass inserts, in the obligations immediately *)
(* before that instruction, one obligation with condition false, class     *)
(* 'error label', marked user-provided, an assumption under                *)
(* assert-to-assume and an assertion otherwise; whatever the check flags   *)
(* and the cache; an instruction without a matching label gets none.       *)
(***************************************************************************)
IsErrorLabelObligation(ins) ==
  ins.gen /\ ins.prop = <<>> /\ ins.type \in {"ASSERT", "ASSUME"}

\* the instruction at k is an instruction of the input that the loop has
\* passed
Passed(k) == ~prog[k].ins.gen /\ (pc = "done" \/ k < it)

\* the inserted instructions that stand immediately before position k
RECURSIVE BlockBefore(_)
BlockBefore(k) ==
  IF k = 1 \/ ~prog[k - 1].ins.gen THEN {}
  ELSE {k - 1} \cup BlockBefore(k - 1)

MatchingLabels(ins) ==
  {cfg.opts.error_labels[n] : n \in 1..Len(cfg.opts.error_labels)}
  \cap ins.labels

ErrorLabelObligationsBefore(k) ==
  {j \in BlockBefore(k) : IsErrorLabelObligation(prog[j].ins)}

C16_ErrorLabels ==
  pc \in {"loop", "done"} =>
    /\ \A k \in Positions :
         Passed(k) =>
           /\ \A l \in MatchingLabels(prog[k].ins) :
                \E j \in ErrorLabelObligationsBefore(k) :
                  prog[j].ins.loc.comment = "error label " \o l
           /\ Cardinality(ErrorLabelObligationsBefore(k))
                = Cardinality(MatchingLabels(prog[k].ins))
    /\ \A j \in Positions :
         IsErrorLabelObligation(prog[j].ins) =>
           /\ prog[j].ins.cond = false_exprt
           /\ prog[j].ins.loc.property_class = "error label"
           /\ prog[j].ins.loc.user_provided
           /\ prog[j].ins.type
                = IF cfg.opts.assert_to_assume THEN "ASSUME" ELSE "ASSERT"
           /\ \E k \in Positions : Passed(k) /\ j \in BlockBefore(k)

\* two matching labels on an instruction with an obligation of its own,
\* every check but one disabled, after an instruction with the same labels
C16_Witness ==
  /\ pc = "done"
  /\ \E k \in Positions :
       /\ Passed(k)
       /\ Cardinality(ErrorLabelObligationsBefore(k)) = 2
       /\ Cardinality(BlockBefore(k)) = 3
  /\ Cardinality({j \in Positions : IsErrorLabelObligation(prog[j].ins)}) = 4

(***************************************************************************)
(* The pass over bodies of assert and assume instructions, user-provided   *)
(* or not, with the options assertions, built-in-assertions and            *)
(* assumptions set independently.                                          *)
(***************************************************************************)
AssertConditions == {Gt(sx, IntC(0)), Pred("r_ok", <<sp, Const(4, SizeT)>>)}

AssertStatements ==
  {Instr("ASSERT", NoCode, c, 0, {}, SourceLocation(1, u, class, {})) :
     c \in AssertConditions, u \in BOOLEAN, class \in {"", "error label"}}
  \cup {Instr("ASSUME", NoCode, c, 0, {}, Loc(1)) : c \in AssertConditions}

AssertBodies(n) == {BodyOf(b) : b \in [1..n -> AssertStatements]}

AssertCheckers ==
  {Checker(en,
           [Options(TRUE, FALSE, FALSE, TRUE, <<>>) EXCEPT
              !.assertions = a, !.built_in_assertions = b, !.assumptions = c],
           "C", {"unknown"}, <<>>) :
     en \in {AllChecks(FALSE), OnlyCheck("pointer")},
     a \in BOOLEAN, b \in BOOLEAN, c \in BOOLEAN}

InitAsserts ==
  \E checker \in AssertCheckers, n \in 1..MaxProgLen :
    \E body \in AssertBodies(n) : Entered(checker, body)

SpecAsserts == InitAsserts /\ [][Next]_vars

(***************************************************************************)
(* C17 - Existing assertions and assumptions: an assert instruction is     *)
(* turned into a skip iff it is user-provided, 'assertions' is false and   *)
(* its class is not 'error label', or it is not user-provided and          *)
(* 'built-in-assertions' is false; an assume instruction is turned into a  *)
(* skip iff 'assumptions' is false; every other assert and assume          *)
(* instruction is left unchanged.                                          *)
(***************************************************************************)
\* an instruction of the given type has just been processed; it stands
\* before the iterator
JustProcessed(type) ==
  pc = "loop" /\ last.oid # 0 /\ last.ins.type = type

AsLeft == prog[it - 1].ins

AssertIsDisabled(ins) ==
  \/ /\ ins.loc.user_provided
     /\ ~cfg.opts.assertions
     /\ ins.loc.property_class # "error label"
  \/ ~ins.loc.user_provided /\ ~cfg.opts.built_in_assertions

TurnedIntoSkipIff ==
  /\ JustProcessed("ASSERT") =>
       (AsLeft.type = "SKIP" <=> AssertIsDisabled(last.ins))
  /\ JustProcessed("ASSUME") =>
       (AsLeft.type = "SKIP" <=> ~cfg.opts.assumptions)

C17_AssertAssumeDisabling ==
  /\ TurnedIntoSkipIff
  /\ (JustProcessed("ASSERT") \/ JustProcessed("ASSUME")) =>
       (AsLeft.type # "SKIP" => AsLeft = last.ins)

(***************************************************************************)
(* C17 amended: an assert or assume instruction that is not turned into a  *)
(* skip keeps everything but its condition; the condition is unchanged     *)
(* when it has no r_ok or w_ok, and otherwise has every r_ok and w_ok      *)
(* replaced by the conjunction of the pointer-validity conditions.         *)
(***************************************************************************)
C17_AssertAssumeDisablingUpToRwOk ==
  /\ TurnedIntoSkipIff
  /\ (JustProcessed("ASSERT") \/ JustProcessed("ASSUME")) =>
       (AsLeft.type # "SKIP" =>
          /\ AsLeft = [last.ins EXCEPT !.cond = AsLeft.cond]
          /\ IF has_rw_ok(last.ins.cond)
             THEN ~has_rw_ok(AsLeft.cond) /\ AsLeft.cond.id = "and"
                  /\ Len(AsLeft.cond.ops) = 7
             ELSE AsLeft.cond = last.ins.cond)

\* an error-label assertion kept although user assertions are disabled,
\* after a user assertion that was turned into a skip
C17_Witness ==
  /\ JustProcessed("ASSERT")
  /\ last.oid = 2
  /\ ~cfg.opts.assertions /\ cfg.opts.built_in_assertions
  /\ last.ins.loc.user_provided
  /\ last.ins.loc.property_class = "error label"
  /\ AsLeft.type = "ASSERT"
  /\ prog[it - 2].ins.type = "SKIP"

\* a kept assertion whose r_ok was expanded
C17_WitnessRwOk ==
  /\ JustProcessed("ASSERT")
  /\ AsLeft.type = "ASSERT"
  /\ has_rw_ok(last.ins.cond)
  /\ AsLeft.cond # last.ins.cond

(***************************************************************************)
(* The pass over bodies in which an instruction that fills the cache is    *)
(* followed by an instruction that writes: assignments to a symbol, to an  *)
(* element, to a member and through a pointer, a call, and the other       *)
(* statement array_set, which overwrites an array.                         *)
(***************************************************************************)
ss == Sym("s", StructT)

Member(e, type) == Un("member", type, e)

ArraySet(array, value) ==
  Instr("OTHER", Code("array_set", <<array, value>>), true_exprt, 0, {},
        Loc(1))

WriteStatements ==
  { Assign(sz, Div(sy, sw)),
    Assign(sz, Div(sy, Index(sa, IntC(1)))),
    Assign(sz, Div(sy, Deref(sp))),
    Assign(sz, Div(sy, Member(ss, SInt(16)))),
    Assign(sw, IntC(1)),
    Assign(Index(sa, IntC(2)), IntC(1)),
    Assign(Member(ss, SInt(16)), IntC(1)),
    Assign(Index(Member(ss, ArrT(10)), IntC(2)), IntC(1)),
    Assign(Deref(sp), IntC(1)),
    Call("f", <<sy>>),
    ArraySet(sa, IntC(0)),
    Instr("OTHER", Code("expression", <<Div(sy, sw)>>), true_exprt, 0, {},
          Loc(1)) }

WriteBodies(n) == {BodyOf(b) : b \in [1..n -> WriteStatements]}

WriteCheckers ==
  {Checker(OnlyCheck("div_by_zero"),
           Options(simplify, FALSE, a2a, TRUE, <<>>), "C", {"unknown"},
           <<>>) :
     simplify \in BOOLEAN, a2a \in BOOLEAN}

InitWrites ==
  \E checker \in WriteCheckers, n \in 1..MaxProgLen :
    \E body \in WriteBodies(n) : Entered(checker, body)

SpecWrites == InitWrites /\ [][Next]_vars

(***************************************************************************)
(* C18 - Cache soundness under writes: after the driver has processed an   *)
(* instruction that writes memory the cache holds no obligation whose      *)
(* truth the write could change.  The LHS of an assignment is reduced      *)
(* through index and member to its root; a symbol root n removes every     *)
(* cached obligation that mentions n or a dereference; any other root      *)
(* empties the cache; and no kind of instruction that can write            *)
(* (assignment, function call, other statement) leaves a stale obligation. *)
(***************************************************************************)
RECURSIVE RootOf(_)
RootOf(lhs) ==
  IF lhs.id \in {"index", "member"} THEN RootOf(lhs.ops[1]) ELSE lhs

\* the cache holds nothing about the object named n
NothingAbout(n) ==
  \A a \in assertions : ~has_symbol(a, {n})

AssignmentLeavesNothingStale ==
  JustProcessed("ASSIGN") =>
    LET root == RootOf(last.ins.code.ops[1]) IN
    IF root.id = "symbol"
    THEN /\ NothingAbout(root.identifier)
         /\ \A a \in assertions : ~has_subexpr(a, {"dereference"})
    ELSE assertions = {}

CallLeavesNothingStale ==
  JustProcessed("FUNCTION_CALL") => assertions = {}

\* array_set(a, v) overwrites the array a
OtherLeavesNothingStale ==
  (JustProcessed("OTHER") /\ last.ins.code.value = "array_set") =>
    NothingAbout(RootOf(last.ins.code.ops[1]).identifier)

C18_NoStaleObligation ==
  /\ AssignmentLeavesNothingStale
  /\ CallLeavesNothingStale
  /\ OtherLeavesNothingStale

\* the same statement for assignments and calls only
C18_Probe_AssignmentsAndCalls ==
  AssignmentLeavesNothingStale /\ CallLeavesNothingStale

\* an assignment to an element of a kept what the cache held about w and
\* dropped what it held about a
C18_ProbeReached ==
  /\ JustProcessed("ASSIGN")
  /\ last.ins.code.ops[1].id = "index"
  /\ \E a \in last.before : has_symbol(a, {"a"})
  /\ assertions = {}

(***************************************************************************)
(* C19 - Emitter de-duplication: a submitted obligation is appended to the *)
(* patch buffer if and only if its simplified condition is not the         *)
(* constant true, or retain-trivial is set, and its guarded expression is  *)
(* not in the cache; on append the guarded expression is added to the      *)
(* cache; consequently, between two consecutive events that clear or       *)
(* invalidate the cache no two inserted obligations of a function have     *)
(* structurally equal conditions.                                          *)
(***************************************************************************)
\* the obligations the walks of the instruction submit, in order: the
\* condition of an instruction that has one, both sides of an assignment
Submitted(cx, ins) ==
  IF has_condition(ins) THEN check(cx, ins.cond, At("cond", <<>>)).out
  ELSE check(cx, ins.code.ops[1], At("code", <<1>>)).out
       \o check(cx, ins.code.ops[2], At("code", <<2>>)).out

SimplifiedCondition(p) ==
  IF cfg.opts.simplify THEN simplify_expr(p.asserted) ELSE p.asserted

Guarded(p, simplified) ==
  IF guard_is_true(p.guard) THEN simplified
  ELSE implies_exprt(guard_as_expr(p.guard), simplified)

IsAppended(cache, simplified, guarded) ==
  /\ ~IsTrue(simplified) \/ cfg.opts.retain_trivial
  /\ guarded \notin cache

\* the guarded expressions the claim has appended for the submissions,
\* starting from the cache
RECURSIVE AppendedFor(_, _)
AppendedFor(cache, props) ==
  IF props = <<>> THEN <<>>
  ELSE LET guarded == Guarded(Head(props), SimplifiedCondition(Head(props)))
       IN IF IsAppended(cache, SimplifiedCondition(Head(props)), guarded)
          THEN <<guarded>> \o AppendedFor(cache \cup {guarded}, Tail(props))
          ELSE AppendedFor(cache, Tail(props))

\* the conditions of the obligations the emitter appended for the last
\* instruction, in the order of the program
AppendedByLast ==
  LET block == SelectSeq(prog, LAMBDA n :
                 n.ins.gen /\ n.ins.prop # <<>> /\ n.ins.oid = last.oid)
  IN [k \in 1..Len(block) |-> block[k].ins.cond]

Range(s) == {s[k] : k \in 1..Len(s)}

AppendedIffNewAndNotTrivial ==
  (JustProcessed("ASSIGN") \/ JustProcessed("ASSERT")
     \/ JustProcessed("ASSUME") \/ JustProcessed("GOTO")) =>
    LET cache == clear_at_instruction(cfg, last.target, last.before)
        expected ==
          AppendedFor(cache,
                      Submitted([cfg EXCEPT !.en =
                                   apply_pragmas(cfg.en,
                                                 last.ins.loc.pragmas)],
                                last.ins))
    IN /\ AppendedByLast = expected
       /\ assertions =
            IF last.ins.type = "ASSIGN"
            THEN invalidate(cache \cup Range(expected),
                            last.ins.code.ops[1])
            ELSE cache \cup Range(expected)

\* the instruction of the input with number k
Original(k) == prog[CHOOSE j \in Positions : IsOriginal(prog[j].ins, k)].ins

\* a branch of the input leads to instruction k
IsTargetOfInput(k) ==
  \E j \in Positions :
    ~prog[j].ins.gen /\ prog[j].ins.type = "GOTO" /\ prog[j].ins.target = k

\* between the obligations of instruction a and those of instruction b the
\* cache is cleared (at the head of an instruction) or invalidated or
\* cleared (at the end of an instruction that writes, returns or throws)
EventBetween(a, b) ==
  \E k \in a..b :
    \/ k > a /\ (cfg.opts.retain_trivial \/ IsTargetOfInput(k))
    \/ k < b /\ Original(k).type
                  \in {"ASSIGN", "FUNCTION_CALL", "THROW", "RETURN"}

NoEqualObligations(among(_)) ==
  pc = "loop" =>
    \A j1 \in Positions, j2 \in Positions :
      (/\ j1 < j2
       /\ IsObligation(prog[j1].ins) /\ among(prog[j1].ins)
       /\ IsObligation(prog[j2].ins) /\ among(prog[j2].ins)
       /\ prog[j1].ins.cond = prog[j2].ins.cond)
      => EventBetween(prog[j1].ins.oid, prog[j2].ins.oid)

C19_EmitterDeduplication ==
  /\ AppendedIffNewAndNotTrivial
  /\ NoEqualObligations(LAMBDA ins : TRUE)

\* the same statement for the obligations that went through the emitter
C19_Probe_Emitter ==
  /\ AppendedIffNewAndNotTrivial
  /\ NoEqualObligations(LAMBDA ins : ins.prop # <<>>)

\* a submission was dropped because the cache held it
C19_ProbeDropped ==
  /\ JustProcessed("ASSERT") \/ JustProcessed("ASSUME")
  /\ last.before # {}
  /\ Submitted(cfg, last.ins) # <<>>
  /\ AppendedByLast = <<>>

(***************************************************************************)
(* C20 - Cache clearing points: the cache is empty when the processing of  *)
(* a function starts, when the processing of an instruction that is a      *)
(* branch target starts, immediately after a function call has been        *)
(* processed and immediately after a throw has been processed; with        *)
(* retain-trivial set it is empty at the start of every instruction;       *)
(* therefore an obligation emitted before a branch target or a call is     *)
(* emitted again when the same checked expression occurs after it.         *)
(***************************************************************************)
EmptyAtFunctionStart ==
  (pc = "loop" /\ last.oid = 0) => assertions = {}

\* the instruction started from the empty cache: what the cache holds
\* after it was put there by its own walks
StartedFromEmptyCache == assertions \subseteq AddedByLast

EmptyAtBranchTarget ==
  (pc = "loop" /\ last.oid # 0 /\ last.target) => StartedFromEmptyCache

EmptyWhenRetainTrivial ==
  (pc = "loop" /\ last.oid # 0 /\ cfg.opts.retain_trivial) =>
    StartedFromEmptyCache

EmptyAfterCallAndThrow ==
  (JustProcessed("FUNCTION_CALL") \/ JustProcessed("THROW")) =>
    assertions = {}

\* the instruction before the last one is a call or a throw
FollowsCallOrThrow ==
  /\ last.oid > 1
  /\ Original(last.oid - 1).type \in {"FUNCTION_CALL", "THROW"}

\* whatever the walks of the instruction submit is emitted as if nothing
\* had been emitted before
EmittedAgain ==
  ((JustProcessed("ASSIGN") \/ JustProcessed("ASSERT")
      \/ JustProcessed("ASSUME") \/ JustProcessed("GOTO"))
   /\ (last.target \/ FollowsCallOrThrow)) =>
    AppendedByLast =
      AppendedFor({}, Submitted([cfg EXCEPT !.en =
                                   apply_pragmas(cfg.en,
                                                 last.ins.loc.pragmas)],
                                last.ins))

C20_CacheClearingPoints ==
  /\ EmptyAtFunctionStart
  /\ EmptyAtBranchTarget
  /\ EmptyWhenRetainTrivial
  /\ EmptyAfterCallAndThrow
  /\ EmittedAgain

\* a branch target emits again an obligation that was in the cache when
\* the loop reached it
C20_Witness ==
  /\ pc = "loop" /\ last.oid # 0 /\ last.target
  /\ ~cfg.opts.retain_trivial
  /\ \E a \in last.before : a \in Range(AppendedByLast)

\* the instruction after a call emits again an obligation of the
\* instruction before the call
C20_WitnessCall ==
  /\ JustProcessed("ASSIGN") /\ FollowsCallOrThrow
  /\ ~cfg.opts.retain_trivial
  /\ AppendedByLast # <<>>
  /\ \E j \in Positions :
       /\ prog[j].ins.gen /\ prog[j].ins.oid < last.oid
       /\ prog[j].ins.cond \in Range(AppendedByLast)

(***************************************************************************)
(* The pass over bodies whose instructions carry pragmas.                  *)
(***************************************************************************)
PragmaSets ==
  { {}, {"disable:div-by-zero-check"}, {"disable:bounds-check"},
    {"disable:div-by-zero-check", "disable:bounds-check"} }

PragmaStatements ==
  {[i EXCEPT !.loc.pragmas = d] :
     i \in { Assign(sz, Div(sy, sw)),
             Assign(sz, Div(Index(sa, sx), sw)),
             Instr("ASSERT", NoCode, Gt(Div(sy, sw), IntC(0)), 0, {},
                   Loc(1)) },
     d \in PragmaSets}

PragmaBodies(n) == {BodyOf(b) : b \in [1..n -> PragmaStatements]}

PragmaCheckers ==
  {Checker(en, Options(TRUE, retain, FALSE, TRUE, <<>>), "C", {"unknown"},
           <<>>) :
     en \in {AllChecks(TRUE), AllChecks(FALSE), OnlyCheck("div_by_zero"),
             OnlyCheck("bounds")},
     retain \in BOOLEAN}

InitPragmas ==
  \E checker \in PragmaCheckers, n \in 1..MaxProgLen :
    \E body \in PragmaBodies(n) : Entered(checker, body)

SpecPragmas == InitPragmas /\ [][Next]_vars

(***************************************************************************)
(* C21 - Pragma-scoped flag overrides: a pragma disable:<category>-check   *)
(* on an instruction sets the enable flag of the category to false only    *)
(* while that instruction is processed; when the processing of an          *)
(* instruction ends every enable flag has the value it had before, hence   *)
(* the value taken from the options; a pragma on instruction k never       *)
(* suppresses obligations of instruction k+1, and a pragma never enables   *)
(* a category that the options disabled.                                   *)
(***************************************************************************)
FlagsAsInOptions == cfg.en = cfg.option_checks

\* the flags the claim has in force while the instruction is processed
FlagsFor(ins) ==
  [f \in CheckFlags |->
     cfg.option_checks[f] /\ PragmaOf[f] \notin ins.loc.pragmas]

\* the obligations of the last instruction are those of its own pragmas
\* and the options
ObligationsOfOwnPragmas ==
  (JustProcessed("ASSIGN") \/ JustProcessed("ASSERT")) =>
    AppendedByLast =
      AppendedFor(clear_at_instruction(cfg, last.target, last.before),
                  Submitted([cfg EXCEPT !.en = FlagsFor(last.ins)],
                            last.ins))

C21_PragmaScopedFlags ==
  /\ FlagsAsInOptions
  /\ ObligationsOfOwnPragmas

\* the instruction after an instruction with a pragma has an obligation of
\* the category the pragma disabled
C21_Witness ==
  /\ JustProcessed("ASSIGN")
  /\ last.oid = 2
  /\ last.ins.loc.pragmas = {}
  /\ Original(1).loc.pragmas = {"disable:div-by-zero-check"}
  /\ \A j \in Positions : prog[j].ins.gen => prog[j].ins.oid = 2
  /\ \E j \in Positions :
       prog[j].ins.gen /\ prog[j].ins.loc.property_class = "division-by-zero"

\* a pragma on an instruction of a run with every check disabled
C21_WitnessDisabled ==
  /\ JustProcessed("ASSIGN")
  /\ last.ins.loc.pragmas # {}
  /\ \A f \in CheckFlags : ~cfg.option_checks[f]

(***************************************************************************)
(* The loop of the pass under weak fairness: an iteration that can be      *)
(* taken is taken.  The bodies hold instructions that get no, one or       *)
(* several new instructions, an assertion that is turned into a skip, a    *)
(* branch, and an index expression over a pointer, which is malformed.     *)
(***************************************************************************)
DriverStatements ==
  { Assign(sz, Div(sy, sw)),
    Assign(sz, Div(Index(sa, sx), sw)),
    Assign(sy, Deref(sp)),
    Assign(sz, Index(sp, sx)),
    Instr("ASSERT", NoCode, Gt(sx, IntC(0)), 0, {},
          SourceLocation(1, TRUE, "", {})),
    Instr("DEAD", Code("dead", <<sx>>), true_exprt, 0, {}, Loc(1)) }

DriverBodies(n) ==
  {BodyOf(b) :
     b \in [1..n -> DriverStatements \cup {Goto(sb, t) : t \in 1..n}]}

DriverCheckers ==
  {Checker(en, Options(TRUE, FALSE, FALSE, kinds, <<>>), "C", {"unknown"},
           <<>>) :
     en \in {AllChecks(TRUE), OnlyCheck("div_by_zero")},
     kinds \in BOOLEAN}

InitDriver ==
  \E checker \in DriverCheckers, n \in 1..MaxProgLen :
    \E body \in DriverBodies(n) : Entered(checker, body)

\* the loop moves on: it steps to an instruction, comes to its end or is
\* left by an exception.  Next is enabled exactly when pc = "loop" and
\* every step of Next changes pc or it, so weak fairness of this action on
\* <<pc, it>> admits the behaviours that do not stop inside the loop
LoopMoves ==
  pc = "loop" /\ pc' \in {"loop", "done", "aborted"} /\ it' \in {it, it + 1}

SpecDriver == InitDriver /\ [][Next]_vars /\ WF_<<pc, it>>(LoopMoves)

(***************************************************************************)
(* C22 - Splicing order and single processing: the driver terminates       *)
(* after processing each original instruction exactly once and never       *)
(* processes an instruction it inserted; after the pass, before skip       *)
(* removal, the original instructions stand in their original order and    *)
(* the instructions generated while processing original instruction k      *)
(* stand contiguously and immediately before k, in the order in which      *)
(* they were emitted.                                                      *)
(***************************************************************************)
OriginalsOf(program) == SelectSeq(program, LAMBDA n : ~n.ins.gen)

\* the instructions of the input stand in the order of the input
OriginalsInOrder ==
  \A k \in 1..Len(OriginalsOf(prog)) : OriginalsOf(prog)[k].ins.oid = k

\* an inserted instruction is followed by an instruction inserted for the
\* same original instruction or by that instruction
BlocksBeforeTheirInstruction ==
  \A j \in Positions :
    prog[j].ins.gen =>
      j < Len(prog) /\ prog[j + 1].ins.oid = prog[j].ins.oid

\* the patch buffer of the last instruction stands before it, in order,
\* and behind the instruction before it
BlockOfLastInOrder ==
  last.oid # 0 =>
    LET m == Len(last.new_code) IN
    /\ it - 1 - m >= 1
    /\ IsOriginal(prog[it - 1].ins, last.oid)
    /\ \A k \in 1..m : prog[it - 2 - m + k].ins = last.new_code[k]
    /\ it - 2 - m > 0 => IsOriginal(prog[it - 2 - m].ins, last.oid - 1)

\* the iterator stands on the instruction of the input after the last one
IteratorOnNextOriginal ==
  IF it <= Len(prog) THEN IsOriginal(prog[it].ins, last.oid + 1)
  ELSE last.oid = Len(OriginalsOf(prog))

SplicedInOrder ==
  pc = "loop" =>
    /\ OriginalsInOrder
    /\ BlocksBeforeTheirInstruction
    /\ BlockOfLastInOrder
    /\ IteratorOnNextOriginal

\* every iteration processes the instruction of the input after the one
\* the iteration before it processed
EachOriginalOnce ==
  [][last' # last => (last'.oid = last.oid + 1 /\ ~last'.ins.gen)]_vars

C22_SplicingOrder ==
  /\ []SplicedInOrder
  /\ EachOriginalOnce
  /\ <>(pc = "done")

(***************************************************************************)
(* C22 amended: the driver processes the original instructions in order,   *)
(* each exactly once, never an instruction it inserted, and comes to the   *)
(* end of the function, unless an instruction is malformed input for       *)
(* which the pass raises a fatal error (an index expression over a         *)
(* pointer, with the bounds check enabled): then the pass stops at that    *)
(* instruction.  At every point of the loop the original instructions      *)
(* stand in their original order and the instructions generated for an     *)
(* instruction that has been processed stand contiguously and immediately  *)
(* before it, in the order in which they were emitted.                     *)
(***************************************************************************)
RECURSIVE IndexOverPointer(_)
IndexOverPointer(e) ==
  \/ e.id = "index" /\ Len(e.ops) = 2 /\ e.ops[1].type.id = "pointer"
  \/ \E i \in 1..Len(e.ops) : IndexOverPointer(e.ops[i])

AbortedAtMalformedInput ==
  pc = "aborted" =>
    /\ cfg.en.bounds
    /\ IndexOverPointer(prog[it].ins.code)
    /\ IsOriginal(prog[it].ins, last.oid + 1)
    /\ OriginalsInOrder /\ BlocksBeforeTheirInstruction

NothingMalformed ==
  ~cfg.en.bounds
  \/ \A k \in Positions : ~IndexOverPointer(prog[k].ins.code)

C22_SplicingOrderUnlessAborted ==
  /\ [](SplicedInOrder /\ AbortedAtMalformedInput)
  /\ EachOriginalOnce
  /\ <>(pc = "done" \/ pc = "aborted")
  /\ NothingMalformed => <>(pc = "done")

\* the loop is at the end of a body of two instructions, the second with
\* several new instructions before it
C22_Witness ==
  /\ pc = "loop" /\ it > Len(prog)
  /\ Len(OriginalsOf(prog)) = 3
  /\ \E j \in Positions :
       /\ j + 3 <= Len(prog)
       /\ prog[j].ins.gen /\ prog[j + 1].ins.gen
       /\ prog[j].ins.oid = 2
       /\ IsOriginal(prog[j + 2].ins, 2)

\* the pass stopped at the second instruction, the first has its block
C22_WitnessAborted ==
  /\ pc = "aborted" /\ last.oid = 1 /\ last.new_code # <<>>

(***************************************************************************)
(* The pass over bodies whose conditions, right-hand sides and return      *)
(* values hold r_ok and w_ok, at the root, below Boolean operators and     *)
(* inside the pointer operand of another r_ok.                             *)
(***************************************************************************)
r_ok(pointer) == Pred("r_ok", <<pointer, Const(4, SizeT)>>)
w_ok(pointer) == Pred("w_ok", <<pointer, Const(4, SizeT)>>)

RwOkStatements ==
  { Instr("ASSERT", NoCode, r_ok(sp), 0, {}, Loc(1)),
    Instr("ASSUME", NoCode, and_exprt(sb, w_ok(sp)), 0, {}, Loc(1)),
    Instr("ASSERT", NoCode, Gt(sx, IntC(0)), 0, {}, Loc(1)),
    Assign(sb, or_exprt(sb, not_exprt(r_ok(sp)))),
    Assign(sb, r_ok(Node("if", PtrT, <<w_ok(sp), sp, sp>>))),
    Assign(sx, Div(sy, sw)),
    Instr("RETURN", Code("return", <<w_ok(sp)>>), true_exprt, 0, {},
          Loc(1)),
    Instr("RETURN", Code("return", <<sx>>), true_exprt, 0, {}, Loc(1)) }

RwOkBodies(n) ==
  {BodyOf(b) :
     b \in [1..n -> RwOkStatements
                      \cup {Goto(not_exprt(r_ok(sp)), t) : t \in 1..n}]}

RwOkCheckers ==
  {Checker(en, Options(TRUE, FALSE, FALSE, TRUE, <<>>), s[1], s[2], s[3]) :
     en \in {AllChecks(FALSE), OnlyCheck("pointer")},
     s \in { <<"C", {"unknown"}, <<>>>>,
             <<"C", {"null", "dynamic_heap"}, <<AnAllocation>>>>,
             <<"java", {"null"}, <<>>>>,
             <<"java", {"dynamic_heap"}, <<>>>> }}

InitRwOk ==
  \E checker \in RwOkCheckers, n \in 1..MaxProgLen :
    \E body \in RwOkBodies(n) : Entered(checker, body)

SpecRwOk == InitRwOk /\ [][Next]_vars

(***************************************************************************)
(* C23 - Replacement of r_ok/w_ok: after the pass the branch condition of  *)
(* every original instruction, the right-hand side of every assignment     *)
(* and the value of every return hold no r_ok and no w_ok; each            *)
(* occurrence r_ok(p, s) or w_ok(p, s), at any depth, is replaced by the   *)
(* conjunction of the conditions address_check produces for p and s at     *)
(* that instruction, the constant true when there are none; an expression  *)
(* without r_ok and w_ok is left unchanged.                                *)
(***************************************************************************)
\* the conjunction of the conditions, as the claim has it
ConjunctionOf(conditions) ==
  IF conditions = <<>> THEN true_exprt
  ELSE IF Len(conditions) = 1 THEN conditions[1].assertion
  ELSE Pred("and", [k \in 1..Len(conditions) |-> conditions[k].assertion])

\* e with every r_ok and w_ok replaced, innermost first
RECURSIVE Replaced(_)
ReplacedAt(e, ops) ==
  IF e.id \in {"r_ok", "w_ok"}
  THEN ConjunctionOf(address_check(cfg, ops[1], ops[2]))
  ELSE [e EXCEPT !.ops = ops]

Replaced(e) == ReplacedAt(e, [k \in 1..Len(e.ops) |-> Replaced(e.ops[k])])

\* the part of an instruction the claim is about
ClaimedPart(ins) ==
  IF ins.type \in {"GOTO", "ASSERT", "ASSUME"} THEN ins.cond
  ELSE IF ins.type = "ASSIGN" THEN ins.code.ops[2]
  ELSE IF ins.type = "RETURN" /\ Len(ins.code.ops) = 1 THEN ins.code.ops[1]
  ELSE true_exprt

NoRwOkLeft ==
  \A k \in Positions :
    (~prog[k].ins.gen /\ (pc = "done" \/ (pc = "loop" /\ k < it))) =>
      ~has_rw_ok(ClaimedPart(prog[k].ins))

RwOkReplaced ==
  (pc = "loop" /\ last.oid # 0 /\ AsLeft.type = last.ins.type) =>
    /\ ClaimedPart(AsLeft) = Replaced(ClaimedPart(last.ins))
    /\ ~has_rw_ok(ClaimedPart(last.ins)) =>
         ClaimedPart(AsLeft) = ClaimedPart(last.ins)

C23_RwOkReplacement == NoRwOkLeft /\ RwOkReplaced

\* an r_ok below Boolean operators in a right-hand side was replaced by a
\* conjunction of several conditions
C23_Witness ==
  /\ JustProcessed("ASSIGN")
  /\ last.ins.code.ops[2].id = "or"
  /\ has_rw_ok(last.ins.code.ops[2])
  /\ AsLeft.code.ops[2].id = "or"
  /\ has_subexpr(AsLeft.code.ops[2], {"and"})
  /\ ~has_rw_ok(AsLeft.code.ops[2])

\* an r_ok for which address_check produces nothing became true
C23_WitnessTrue ==
  /\ JustProcessed("RETURN")
  /\ has_rw_ok(last.ins.code.ops[1])
  /\ AsLeft.code.ops[1] = true_exprt

\* an r_ok inside the pointer operand of an r_ok
C23_WitnessNested ==
  /\ JustProcessed("ASSIGN")
  /\ last.ins.code.ops[2].id = "r_ok"
  /\ has_rw_ok(last.ins.code.ops[2].ops[1])
  /\ ~has_rw_ok(AsLeft.code.ops[2])

(***************************************************************************)
(* The pass over expression statements that take an address: of a          *)
(* dereference, of an element, of a member of a dereference, with          *)
(* divisions, elements and dereferences in the pointer and in the index,   *)
(* and with quantifiers; and over the same expressions used as values.     *)
(***************************************************************************)
sq == Sym("q", PtrT)

Exists(body) == Pred("exists", <<sx, body>>)
Forall(body) == Pred("forall", <<sx, body>>)

AddressedObjects ==
  { Deref(sp),
    Index(sa, sx),
    Index(sa, Div(sy, sw)),
    Index(sa, Index(sa, sx)),
    Deref(Un("dereference", PtrT, sq)),
    Member(Deref(sp), SInt(16)),
    Index(Un("dereference", ArrT(10), sp), sx),
    Index(Member(Deref(sp), ArrT(10)), Deref(sq)),
    Index(sa, If(Exists(Gt(Div(sy, sw), IntC(0))), Div(sy, sw), sx)),
    Forall(Gt(Deref(sp), Div(sy, sw))),
    Index(Forall(Gt(Deref(sp), IntC(0))), Div(sy, sw)) }

AddressExprs ==
  {AddressOf(o) : o \in AddressedObjects}
  \cup {Deref(sp), Index(sa, sx), Member(Deref(sp), SInt(16)),
        Forall(Gt(Index(sa, sx), Div(sy, sw)))}

AddressCheckers ==
  { Checker(AllChecks(TRUE), Options(TRUE, FALSE, FALSE, TRUE, <<>>),
            "C", {"unknown"}, <<>>),
    Checker(OnlyCheck("pointer"), Options(TRUE, FALSE, FALSE, TRUE, <<>>),
            "C", {"unknown"}, <<>>),
    Checker(OnlyCheck("bounds"), Options(FALSE, TRUE, TRUE, TRUE, <<>>),
            "C", {"unknown"}, <<>>),
    Checker(AllChecks(TRUE), Options(FALSE, TRUE, FALSE, TRUE, <<>>),
            "java", {"null"}, <<>>) }

InitAddress ==
  \E checker \in AddressCheckers, e \in AddressExprs :
    Entered(checker, WalkBody(e))

SpecAddress == InitAddress /\ [][Next]_vars

(***************************************************************************)
(* C24 - Address-of does not demand validity of the addressed memory:      *)
(* when the walker visits address_of(e) no pointer-validity obligation is  *)
(* emitted for a dereference on the address path of e and no bounds        *)
(* obligation for an index on the address path of e; the pointer of such   *)
(* a dereference and the index value of such an index are walked as        *)
(* values and produce their own obligations; all other nodes on the path   *)
(* are traversed child by child in address mode; quantifiers are never     *)
(* descended into.                                                         *)
(***************************************************************************)
IsQuantifier(e) == e.id \in {"exists", "forall"}

\* the places below e, a node on the address path at the place path, where
\* the walk turns to values: the pointer of a dereference, the index value
\* of an index
RECURSIVE ValuePlaces(_, _)
ValuePlaces(e, path) ==
  IF IsQuantifier(e) THEN {}
  ELSE IF e.id = "dereference" THEN {Append(path, 1)}
  ELSE IF e.id = "index"
  THEN ValuePlaces(e.ops[1], Append(path, 1)) \cup {Append(path, 2)}
  ELSE UNION {ValuePlaces(e.ops[k], Append(path, k)) : k \in 1..Len(e.ops)}

IsPrefix(s, t) == Len(s) <= Len(t) /\ SubSeq(t, 1, Len(s)) = s

\* the expression statement, when the pass is over, and the obligations
\* emitted for it
StatementWalked == pc = "done"
TheStatement == Original(1).code
StatementObligations ==
  {prog[k].ins.prop[1] : k \in {j \in Positions :
     IsObligation(prog[j].ins) /\ prog[j].ins.prop # <<>>
     /\ prog[j].ins.oid = 1}}

\* the statement is the address of an object; the object stands at <<1, 1>>
AddressTaken == StatementWalked /\ TheStatement.ops[1].id = "address_of"
TheObject == TheStatement.ops[1].ops[1]

\* every obligation was emitted for an expression inside a value place,
\* none for a node on the address path
NoneOnAddressPath ==
  \A p \in StatementObligations :
    \E v \in ValuePlaces(TheObject, <<1, 1>>) : IsPrefix(v, p.path)

\* what the walk of an expression as a value emits is emitted for it at
\* each value place
ValuePlacesWalked ==
  \A v \in ValuePlaces(TheObject, <<1, 1>>) :
    LET out == check(cfg, SubAt(TheStatement, v), At("code", v)).out IN
    \A k \in 1..Len(out) :
      (~IsTrue(SimplifiedCondition(out[k])) \/ cfg.opts.retain_trivial) =>
        \E p \in StatementObligations :
          /\ p.asserted = out[k].asserted /\ p.class = out[k].class
          /\ p.guard = out[k].guard
          /\ IsPrefix(v, p.path)

NoneBelowQuantifier ==
  StatementWalked =>
    \A p \in StatementObligations :
      \A n \in 1..Len(p.path) :
        ~IsQuantifier(SubAt(TheStatement, SubSeq(p.path, 1, n - 1)))

C24_AddressOf ==
  /\ AddressTaken => (NoneOnAddressPath /\ ValuePlacesWalked)
  /\ NoneBelowQuantifier

\* the address of an element whose index divides: the division has its
\* obligation, the element has none
C24_Witness ==
  /\ AddressTaken
  /\ TheObject = Index(sa, Div(sy, sw))
  /\ cfg.en.bounds /\ cfg.en.div_by_zero
  /\ \E p \in StatementObligations : p.class = "division-by-zero"
  /\ \A p \in StatementObligations : p.class # "array bounds"

\* the address of **q: the inner dereference is checked, the outer is not
C24_WitnessDeref ==
  /\ AddressTaken
  /\ TheObject = Deref(Un("dereference", PtrT, sq))
  /\ cfg.mode = "C" /\ cfg.en.pointer
  /\ StatementObligations # {}
  /\ \A p \in StatementObligations : p.path = <<1, 1, 1>>

\* the same element used as a value has its bounds obligations
C24_WitnessValue ==
  /\ StatementWalked /\ TheStatement.ops[1] = Index(sa, sx)
  /\ \E p \in StatementObligations : p.class = "array bounds"

(***************************************************************************)
(* The pass over expression statements that shift: the three shifts, an    *)
(* operand that is signed, unsigned, a float or a pointer, a distance      *)
(* that is signed or unsigned, a symbol or a constant.                     *)
(***************************************************************************)
ShiftExprs ==
  {Bin(id, op.type, op, distance) :
     id \in {"shl", "ashr", "lshr"},
     op \in {sx, su, sf, sp},
     distance \in {sy, su, IntC(3), IntC(20), Const(3, UInt(16))}}

ShiftCheckers ==
  {Checker(OnlyCheck("undefined_shift"),
           Options(simplify, retain, FALSE, TRUE, <<>>), "C", {"unknown"},
           <<>>) :
     simplify \in BOOLEAN, retain \in BOOLEAN}
  \cup
  {Checker(en, Options(TRUE, FALSE, TRUE, TRUE, <<>>), "C", {"unknown"},
           <<>>) :
     en \in {AllChecks(TRUE), AllChecks(FALSE)}}

InitShift ==
  \E checker \in ShiftCheckers, e \in ShiftExprs :
    Entered(checker, WalkBody(e))

SpecShift == InitShift /\ [][Next]_vars

(***************************************************************************)
(* C25 - Undefined-shift obligations: for every shl, ashr or lshr with     *)
(* undefined-shift-check enabled the pass emits 'distance >= 0' if and     *)
(* only if the distance type is signed; if the shifted operand is a        *)
(* signed or unsigned bit-vector it emits 'distance < width(operand        *)
(* type)' and, for shl on a signed operand only, 'operand >= 0'; if the    *)
(* operand is not a bit-vector it emits the constant false instead; all    *)
(* have property class 'undefined-shift'.  What is emitted is submitted    *)
(* to the emitter, which drops a condition that is trivially true or       *)
(* already in the cache.                                                   *)
(***************************************************************************)
Submission(asserted) == [asserted |-> asserted, guard |-> TrueGuard]

IsBitvector(type) == type.id \in {"signedbv", "unsignedbv"}

\* the submissions the claim has for the shift e, in order
ShiftSubmissions(e) ==
  LET op == e.ops[1]
      distance == e.ops[2]
  IN (IF distance.type.id = "signedbv"
      THEN <<Submission(Pred("ge", <<distance, Const(0, distance.type)>>))>>
      ELSE <<>>)
     \o (IF ~IsBitvector(op.type) THEN <<Submission(false_exprt)>>
         ELSE <<Submission(Pred("lt", <<distance,
                                        Const(op.type.w, distance.type)>>))>>)
     \o (IF e.id = "shl" /\ op.type.id = "signedbv"
         THEN <<Submission(Pred("ge", <<op, Const(0, op.type)>>))>>
         ELSE <<>>)

\* the conditions of the obligations of class 'undefined-shift' that stand
\* before the statement, in order
ShiftObligations ==
  LET block == SelectSeq(prog, LAMBDA n :
                 /\ IsObligation(n.ins) /\ n.ins.oid = 1
                 /\ n.ins.loc.property_class = "undefined-shift")
  IN [k \in 1..Len(block) |-> block[k].ins.cond]

C25_UndefinedShift ==
  StatementWalked =>
    ShiftObligations =
      IF cfg.option_checks.undefined_shift
      THEN AppendedFor({}, ShiftSubmissions(TheStatement.ops[1]))
      ELSE <<>>

\* a signed operand shifted left by a signed distance: three obligations
C25_Witness ==
  /\ StatementWalked
  /\ TheStatement.ops[1] = Bin("shl", SInt(16), sx, sy)
  /\ ShiftObligations =
       << Pred("ge", <<sy, IntC(0)>>), Pred("lt", <<sy, IntC(16)>>),
          Pred("ge", <<sx, IntC(0)>> ) >>

\* a float shifted right by an unsigned distance: the obligation false
C25_WitnessNoBitvector ==
  /\ StatementWalked
  /\ TheStatement.ops[1] = Bin("lshr", FloatT, sf, su)
  /\ ShiftObligations = <<false_exprt>>

\* a constant distance in range with simplification: nothing is inserted
\* for a shift to the right
C25_WitnessTrivial ==
  /\ StatementWalked
  /\ TheStatement.ops[1] = Bin("ashr", SInt(16), sx, IntC(3))
  /\ cfg.option_checks.undefined_shift
  /\ cfg.opts.simplify /\ ~cfg.opts.retain_trivial
  /\ ShiftObligations = <<>>

(***************************************************************************)
(* The value of an expression over integer constants, for the operators    *)
(* of the overflow and conversion obligations.  A bit-vector is the        *)
(* number its bits spell; a typecast of a signed value to a wider type     *)
(* extends the sign; a shift reads its distance as an unsigned number and  *)
(* yields zero when that number is not below the width.                    *)
(***************************************************************************)
Bits(n, width) == n % (power2(width))

ShlBits(n, distance, distance_type, width) ==
  LET by == Bits(distance, distance_type.w)
  IN IF by >= width THEN 0 ELSE Bits(n * power2(by), width)

RECURSIVE IntValue(_)
IntValue(e) ==
  CASE e.id = "constant" -> e.num
    [] e.id = "typecast" -> IntValue(e.ops[1])
    [] e.id = "shl" ->
         ShlBits(IntValue(e.ops[1]), IntValue(e.ops[2]), e.ops[2].type,
                 e.type.w)
    [] e.id = "extractbits" ->
         LET upper == IntValue(e.ops[2])
             lower == IntValue(e.ops[3])
         IN Bits(Bits(IntValue(e.ops[1]), e.ops[1].type.w) \div power2(lower),
                 upper - lower + 1)

RECURSIVE BoolValue(_)
BoolValue(e) ==
  CASE IsTrue(e) -> TRUE
    [] IsFalse(e) -> FALSE
    [] e.id \in RelIds -> EvalRel(e.id, IntValue(e.ops[1]), IntValue(e.ops[2]))
    [] e.id = "not" -> ~BoolValue(e.ops[1])
    [] e.id = "or" -> \E k \in 1..Len(e.ops) : BoolValue(e.ops[k])
    [] e.id = "and" -> \A k \in 1..Len(e.ops) : BoolValue(e.ops[k])
    [] e.id = "implies" -> BoolValue(e.ops[1]) => BoolValue(e.ops[2])

(***************************************************************************)
(* The pass over x << d for signed constants x of width 2 and 3 and        *)
(* distances around the width, under every language standard, with the     *)
(* signed overflow check only; the obligation is inserted as built.        *)
(***************************************************************************)
ShlWidths == {2, 3}

Standards ==
  {[mode |-> "C", c |-> c, cpp |-> "CPP98"] : c \in {"C89", "C99", "C11"}}
  \cup
  {[mode |-> "cpp", c |-> "C99", cpp |-> cpp] :
     cpp \in {"CPP98", "CPP11", "CPP14"}}
  \cup {[mode |-> "java", c |-> "C99", cpp |-> "CPP98"]}

ShlExprs ==
  {e \in {Bin("shl", SInt(w), Const(x, SInt(w)), Const(d, distance_type)) :
            w \in ShlWidths, x \in -4..3, d \in -2..5,
            distance_type \in {SInt(16), UInt(16)}} :
     /\ BvFits(e.ops[1].num, e.ops[1].type)
     /\ BvFits(e.ops[2].num, e.ops[2].type)}

ShlCheckers ==
  {[Checker(OnlyCheck("signed_overflow"),
            Options(FALSE, TRUE, FALSE, TRUE, <<>>), std.mode, {"unknown"},
            <<>>) EXCEPT !.c_standard = std.c, !.cpp_standard = std.cpp] :
     std \in Standards}

InitShl ==
  \E checker \in ShlCheckers, e \in ShlExprs : Entered(checker, WalkBody(e))

SpecShl == InitShl /\ [][Next]_vars

(***************************************************************************)
(* C26 - Signed left-shift overflow obligation: for every signed operand   *)
(* value x of width w and every shift distance d, the overflow obligation  *)
(* emitted for x << d is true whenever d is negative, d is too large       *)
(* (d >= w), x is negative or x is zero; in all other cases it is true if  *)
(* and only if the top w bits (top w+1 bits when the selected standard is  *)
(* C99, C11, C++11 or C++14) of the 2w-bit extension of x shifted left by  *)
(* d are all zero.                                                         *)
(***************************************************************************)
ShlObligations ==
  {p \in StatementObligations : p.class = "overflow"}

TheOperand == TheStatement.ops[1].ops[1].num
TheDistance == TheStatement.ops[1].ops[2].num
TheWidth == TheStatement.ops[1].type.w

SignBitCounts ==
  \/ cfg.mode = "C" /\ cfg.c_standard \in {"C99", "C11"}
  \/ cfg.mode = "cpp" /\ cfg.cpp_standard \in {"CPP11", "CPP14"}

\* the top bits of the 2w-bit extension of x shifted left by d are all zero
TopBitsZero(x, d, w, top) == (x * power2(d)) \div power2(2 * w - top) = 0

ShlObligationValue(x, d, w) ==
  \/ d < 0
  \/ d >= w
  \/ x < 0
  \/ x = 0
  \/ TopBitsZero(x, d, w, IF SignBitCounts THEN w + 1 ELSE w)

C26_SignedShlOverflow ==
  StatementWalked =>
    /\ Cardinality(ShlObligations) = 1
    /\ \A p \in ShlObligations :
         BoolValue(p.asserted) <=>
           ShlObligationValue(TheOperand, TheDistance, TheWidth)

\* the statement holds of every distance but the width itself
C26_Probe_DistanceNotWidth ==
  StatementWalked /\ TheDistance # TheWidth =>
    /\ Cardinality(ShlObligations) = 1
    /\ \A p \in ShlObligations :
         BoolValue(p.asserted) <=>
           ShlObligationValue(TheOperand, TheDistance, TheWidth)

\* 1 << 2 at width 3 under C99: the top three bits of 000100 are zero,
\* the top four are not
C26_ProbeTopBits ==
  /\ StatementWalked
  /\ TheOperand = 1 /\ TheDistance = 2 /\ TheWidth = 3
  /\ SignBitCounts
  /\ \E p \in ShlObligations : ~BoolValue(p.asserted)

\* a negative distance with a positive operand
C26_ProbeNegativeDistance ==
  /\ StatementWalked
  /\ TheOperand = 1 /\ TheDistance = -1
  /\ \E p \in ShlObligations : BoolValue(p.asserted)

(***************************************************************************)
(* The pass over a typecast of an integer constant: source types of        *)
(* width 2 to 4, every value of the source type, destination types of      *)
(* width 1 to 5, with the conversion check only; the obligation is         *)
(* inserted as built, or simplified and dropped when trivially true.       *)
(***************************************************************************)
BvTypes(widths) == {SInt(w) : w \in widths} \cup {UInt(w) : w \in widths}

ConversionExprs ==
  UNION {{typecast_exprt(Const(v, old_type), type) :
            v \in {n \in -8..15 : BvFits(n, old_type)},
            type \in BvTypes(1..5)} :
         old_type \in BvTypes(2..4)}

ConversionCheckers ==
  {Checker(en, Options(simplify, ~simplify, FALSE, TRUE, <<>>), "C",
           {"unknown"}, <<>>) :
     en \in {OnlyCheck("conversion"), AllChecks(FALSE)},
     simplify \in BOOLEAN}

InitConversion ==
  \E checker \in ConversionCheckers, e \in ConversionExprs :
    Entered(checker, WalkBody(e))

SpecConversion == InitConversion /\ [][Next]_vars

(***************************************************************************)
(* C27 - Integer conversion obligations are exact range containment: for   *)
(* a typecast between signed/unsigned bit-vector types with                *)
(* conversion-check enabled, for every source width, destination width     *)
(* and source value v, the emitted obligation evaluates to true if and     *)
(* only if v is representable in the destination type; no obligation is    *)
(* emitted if and only if the destination is the same signedness with      *)
(* width >= source width, or signed with width >= unsigned source width    *)
(* + 1; a signed-to-unsigned cast always emits at least 'v >= 0' and adds  *)
(* the upper bound 2^n - 1 only when the destination width n is less than  *)
(* the source width minus 1.  What is emitted is submitted to the          *)
(* emitter, which drops it when it simplifies to true and trivial          *)
(* obligations are not retained.                                           *)
(***************************************************************************)
ConversionObligations ==
  {p \in StatementObligations : p.class = "overflow"}

TheCast == TheStatement.ops[1]
TheValue == TheCast.ops[1]
SourceType == TheValue.type
DestinationType == TheCast.type

Representable(n, type) ==
  IF type.id = "signedbv"
  THEN -power2(type.w - 1) <= n /\ n <= power2(type.w - 1) - 1
  ELSE 0 <= n /\ n <= power2(type.w) - 1

AlwaysFits(old_type, type) ==
  \/ type.id = old_type.id /\ type.w >= old_type.w
  \/ type.id = "signedbv" /\ old_type.id = "unsignedbv"
     /\ type.w >= old_type.w + 1

DroppedAsTrivial == cfg.opts.simplify /\ ~cfg.opts.retain_trivial

ExactRange ==
  \A p \in ConversionObligations :
    BoolValue(p.asserted) <=> Representable(TheValue.num, DestinationType)

NoneIffAlwaysFits ==
  /\ Cardinality(ConversionObligations) <= 1
  /\ ConversionObligations = {} <=>
       \/ AlwaysFits(SourceType, DestinationType)
       \/ DroppedAsTrivial /\ Representable(TheValue.num, DestinationType)

SignedToUnsigned ==
  SourceType.id = "signedbv" /\ DestinationType.id = "unsignedbv"
    /\ ~cfg.opts.simplify =>
    LET lower == Pred("ge", <<TheValue, Const(0, SourceType)>>)
        upper == Pred("le", <<TheValue,
                              Const(power2(DestinationType.w) - 1,
                                    SourceType)>>)
    IN \A p \in ConversionObligations :
         p.asserted = IF DestinationType.w < SourceType.w - 1
                      THEN and_exprt(lower, upper) ELSE lower

C27_ConversionExactRange ==
  StatementWalked =>
    IF cfg.option_checks.conversion
    THEN ExactRange /\ NoneIffAlwaysFits /\ SignedToUnsigned
    ELSE ConversionObligations = {}

\* 4 as an unsigned value of width 3 cast to the signed type of width 3:
\* the obligation 4 <= 3 is inserted and is false
C27_Witness ==
  /\ StatementWalked
  /\ TheCast = typecast_exprt(Const(4, UInt(3)), SInt(3))
  /\ ~cfg.opts.simplify
  /\ \E p \in ConversionObligations :
       /\ p.asserted = Pred("le", <<TheValue, Const(3, UInt(3))>>)
       /\ ~BoolValue(p.asserted)

\* a signed value cast to the unsigned type one bit narrower: only v >= 0
C27_WitnessLowerOnly ==
  /\ StatementWalked
  /\ TheCast = typecast_exprt(Const(-1, SInt(3)), UInt(2))
  /\ \E p \in ConversionObligations : ~BoolValue(p.asserted)

\* a widening cast: nothing is emitted
C27_WitnessWidening ==
  /\ StatementWalked
  /\ cfg.option_checks.conversion /\ ~cfg.opts.simplify
  /\ TheCast = typecast_exprt(Const(3, UInt(2)), SInt(3))
  /\ ConversionObligations = {}

(***************************************************************************)
(* The pass over sums, differences and products of two to four symbols     *)
(* and over unary minus, with a signed and an unsigned result, the two     *)
(* overflow checks set independently.                                      *)
(***************************************************************************)
sv == Sym("v", UInt(16))

OperandLists(symbols) ==
  UNION {[1..n -> symbols] : n \in 2..4}

OverflowExprs ==
  {Node(id, SInt(16), ops) :
     id \in {"plus", "minus", "mult"}, ops \in OperandLists({sx, sy})}
  \cup
  {Node(id, UInt(16), ops) :
     id \in {"plus", "minus", "mult"}, ops \in OperandLists({su, sv})}
  \cup
  {Un("unary_minus", SInt(16), sx), Un("unary_minus", UInt(16), su)}

OverflowChecks(signed, unsigned) ==
  [f \in CheckFlags |->
     \/ f = "signed_overflow" /\ signed
     \/ f = "unsigned_overflow" /\ unsigned]

OverflowCheckers ==
  {Checker(OverflowChecks(signed, unsigned),
           Options(simplify, FALSE, FALSE, TRUE, <<>>), "C", {"unknown"},
           <<>>) :
     signed \in BOOLEAN, unsigned \in BOOLEAN, simplify \in BOOLEAN}

InitOverflow ==
  \E checker \in OverflowCheckers, e \in OverflowExprs :
    Entered(checker, WalkBody(e))

SpecOverflow == InitOverflow /\ [][Next]_vars

(***************************************************************************)
(* C28 - Integer overflow decomposition and gating: for +, -, * with       *)
(* n >= 2 operands o1..on and a bit-vector result, the pass emits exactly  *)
(* n-1 obligations, the i-th being 'not overflow-op(op(o1..oi), o(i+1))'   *)
(* (left-associative binary prefixes; the whole expression for n = 2); no  *)
(* overflow obligation is emitted for a signed result when                 *)
(* signed-overflow-check is false, nor for an unsigned result when         *)
(* unsigned-overflow-check is false; unary minus yields one obligation     *)
(* only for signed results ('operand is not the smallest signed value').   *)
(***************************************************************************)
\* the conditions of the obligations of class 'overflow' that stand before
\* the statement, in order
OverflowObligations ==
  LET block == SelectSeq(prog, LAMBDA n :
                 /\ IsObligation(n.ins) /\ n.ins.oid = 1
                 /\ n.ins.loc.property_class = "overflow")
  IN [k \in 1..Len(block) |-> block[k].ins.cond]

TheArithmetic == TheStatement.ops[1]

\* op(o1..oi): o1 itself, or the operator over the first i operands
PrefixOf(e, i) ==
  IF i = 1 THEN e.ops[1] ELSE Node(e.id, e.type, SubSeq(e.ops, 1, i))

OverflowChecked(type) ==
  \/ type.id = "signedbv" /\ cfg.option_checks.signed_overflow
  \/ type.id = "unsignedbv" /\ cfg.option_checks.unsigned_overflow

NotSmallest(e) ==
  not_exprt(Pred("equal", <<e.ops[1],
                           Const(-power2(e.type.w - 1), e.type)>>))

C28_OverflowDecomposition ==
  StatementWalked =>
    LET e == TheArithmetic
        n == Len(e.ops)
    IN OverflowObligations =
         IF ~OverflowChecked(e.type) THEN <<>>
         ELSE IF e.id = "unary_minus"
         THEN IF e.type.id = "signedbv" THEN <<NotSmallest(e)>> ELSE <<>>
         ELSE [i \in 1..(n - 1) |->
                 not_exprt(Pred("overflow-" \o e.id,
                                <<PrefixOf(e, i), e.ops[i + 1]>>))]

\* x - y - x - y with the signed check: three obligations
C28_Witness ==
  /\ StatementWalked
  /\ TheArithmetic = Node("minus", SInt(16), <<sx, sy, sx, sy>>)
  /\ OverflowObligations =
       << not_exprt(Pred("overflow-minus", <<sx, sy>>)),
          not_exprt(Pred("overflow-minus",
                         <<Node("minus", SInt(16), <<sx, sy>>), sx>>)),
          not_exprt(Pred("overflow-minus",
                         <<Node("minus", SInt(16), <<sx, sy, sx>>), sy>>)) >>

\* an unsigned product with the signed check only: nothing
C28_WitnessGated ==
  /\ StatementWalked
  /\ TheArithmetic = Node("mult", UInt(16), <<su, sv>>)
  /\ cfg.option_checks.signed_overflow
  /\ ~cfg.option_checks.unsigned_overflow
  /\ OverflowObligations = <<>>

\* unary minus of a signed value
C28_WitnessUnaryMinus ==
  /\ StatementWalked
  /\ TheArithmetic = Un("unary_minus", SInt(16), sx)
  /\ Len(OverflowObligations) = 1

(***************************************************************************)
(* C29 - Nested-symbol search (get_inner_symbol_expr): following operand   *)
(* 0 repeatedly from an expression, the function returns the symbol        *)
(* reached if and only if every intermediate node visited is a member,     *)
(* index, address-of, typecast, symbol or byte-extract-little-endian node  *)
(* and the chain ends at a symbol with non-empty identifier; it returns    *)
(* empty when any other intermediate node occurs or the final node is not  *)
(* a valid symbol; it terminates on every finite expression;               *)
(* check_member_structure is true exactly for member expressions that      *)
(* have operands and for which this search succeeds.                       *)
(***************************************************************************)
\* the node at the end of the chain of first operands
RECURSIVE ChainEnd(_)
ChainEnd(e) == IF e.ops = <<>> THEN e ELSE ChainEnd(e.ops[1])

\* the nodes visited after the expression itself
RECURSIVE ChainBelow(_)
ChainBelow(e) ==
  IF e.ops = <<>> THEN {} ELSE {e.ops[1]} \cup ChainBelow(e.ops[1])

SearchSucceeds(e) ==
  /\ \A n \in ChainBelow(e) : n.id \in GChainKinds
  /\ GValidSymbol(ChainEnd(e))

SidesExamined ==
  IF StepExamined THEN {tstep.full_lhs, tstep.full_lhs_value} ELSE {}

SearchAsClaimed(e) ==
  /\ get_inner_symbol_expr(e) =
       IF SearchSucceeds(e) THEN <<ChainEnd(e)>> ELSE <<>>
  /\ check_member_structure(e) <=>
       (e.id = "member" /\ e.ops # <<>> /\ SearchSucceeds(e))

C29_NestedSymbolSearch == \A e \in SidesExamined : SearchAsClaimed(e)

\* the statement holds of every chain without a byte-extract node
C29_Probe_NoByteExtract ==
  \A e \in SidesExamined :
    (\A n \in ChainBelow(e) : n.id # "byte_extract_little_endian")
      => SearchAsClaimed(e)

\* a search that succeeds through member, index and typecast
C29_ProbeFound ==
  \E e \in SidesExamined :
    /\ e.id = "member" /\ Cardinality(ChainBelow(e)) >= 2
    /\ get_inner_symbol_expr(e) = <<TSym("x")>>

(***************************************************************************)
(* C30 - Constant right-hand side of the trace validator: a constant RHS   *)
(* is accepted if and only if it holds a non-empty value, or its first     *)
(* operand (after removing typecasts) is a constant, an address-of or a    *)
(* '+' expression; in particular a constant with a non-empty value is      *)
(* accepted whatever its operands are, and a constant with an empty value  *)
(* and no operands is rejected with an error naming "RHS".                 *)
(***************************************************************************)
TheRhs == skip_typecast(tstep.full_lhs_value)

ConstantRhsExamined == RhsExamined /\ TheRhs.id = "constant"

RhsAccepted == tstatus = "checked"
RhsRejected == tstatus = "raised" /\ terr = "RHS" /\ twhere = "rhs"

FirstOperandFits(e) ==
  /\ e.ops # <<>>
  /\ skip_typecast(e.ops[1]).id \in {"constant", "address_of", "plus"}

C30_ConstantRhs ==
  ConstantRhsExamined =>
    /\ RhsAccepted <=> (TheRhs.value # "" \/ FirstOperandFits(TheRhs))
    /\ RhsAccepted \/ RhsRejected

\* as the validator decides: by the first operand when there are operands,
\* by the value when there are none
C30_ConstantRhsByOperands ==
  ConstantRhsExamined =>
    /\ RhsAccepted <=>
         IF TheRhs.ops # <<>> THEN FirstOperandFits(TheRhs)
         ELSE TheRhs.value # ""
    /\ RhsAccepted \/ RhsRejected

\* a constant with the value 0 over a symbol is rejected
C30_Witness ==
  /\ ConstantRhsExamined
  /\ TheRhs.value = "0"
  /\ TheRhs.ops # <<>> /\ TheRhs.ops[1].id = "symbol"
  /\ RhsRejected

\* a constant without a value over a typecast of a constant is accepted
C30_WitnessOperand ==
  /\ ConstantRhsExamined
  /\ TheRhs.value = ""
  /\ TheRhs.ops # <<>> /\ TheRhs.ops[1].id = "typecast"
  /\ RhsAccepted

\* a constant without value and operands is rejected
C30_WitnessEmpty ==
  /\ ConstantRhsExamined
  /\ TheRhs = TConst("")
  /\ RhsRejected

====
